---------------------------- MODULE Spec2Model ----------------------------
(***************************************************************************)
(* Local Media Server: the path sandbox, the pending-upload store, the     *)
(* moderation bridge and the HTTP routes of both front-ends:               *)
(*   "tk"  src/app.py                  (Tk front-end, module-level routes) *)
(*   "qt"  src/server.py, src/utils.py, src/gui.py   (Qt front-end)        *)
(*                                                                         *)
(* A Python str is a sequence of one-character strings; a pathlib path is  *)
(* the sequence of its components (the root "/" is the empty sequence).    *)
(* The filesystem is the set of real directories, the map from the real    *)
(* regular files to the identity of their content, and the symbolic links. *)
(***************************************************************************)
EXTENDS Naturals, Integers, Sequences, FiniteSets, TLC

VARIABLES
    frontend,   \* which program runs: "tk" (app.py) or "qt" (main.py)
    links,      \* symbolic links: absolute path -> absolute target
    dirs,       \* the real directories (absolute paths)
    files,      \* the regular files: absolute path -> content identity
    queue,      \* notifications in flight (UPLOAD_REQUESTS / queued signal)
    dialogs,    \* the open upload dialogs, oldest first
    nreq,       \* number of upload requests handled so far
    hist,       \* per upload request: what it saved and what became of it
    last,       \* the last operation and its outcome
    password,   \* the configured password ("" when none is set)
    st_size,    \* content identity -> size of the content in bytes
    threads,    \* handler threads: the position and the locals of each
    reply,      \* headers, body length and listing of the last response
    creds,      \* the credentials the client sends with its requests
    range_header, \* the Range header the client sends to /stream
    life,       \* the server's life cycle: configuration, flags, threads
    gen         \* the generator of iter_file that feeds a response body

vars == <<frontend, links, dirs, files, queue, dialogs, nreq, hist, last,
          password, st_size, threads, reply, creds, range_header,
          life, gen>>

(***************************************************************************)
(* Bounds of the model.                                                    *)
(***************************************************************************)
\* longest client string the sandbox functions are applied to (SandboxSpec)
MaxLen == 3
\* upload requests per behaviour of the moderation bridge (Spec)
MaxUploads == 2
\* upload requests per behaviour where the web routes act on the staged
\* files (ModerationSpec, ServeSpec)
MaxStaged == 1
\* files submitted by one upload request
MaxFiles == 2
\* directories on the disk: approve creates none beyond this number
MaxDirs == 9
\* the largest size of a file, in bytes
MaxSize == 3
\* server threads started per behaviour of the life cycle (LifeSpec)
MaxStarts == 2
\* chunk sizes passed to iter_file
MaxChunk == 2

(***************************************************************************)
(* Python str                                                              *)
(***************************************************************************)
Whitespace == {" "}

RECURSIVE lstrip(_, _)
lstrip(s, chars) ==
    IF s # <<>> /\ Head(s) \in chars THEN lstrip(Tail(s), chars) ELSE s

RECURSIVE rstrip(_, _)
rstrip(s, chars) ==
    IF s # <<>> /\ s[Len(s)] \in chars
    THEN rstrip(SubSeq(s, 1, Len(s) - 1), chars)
    ELSE s

\* str.strip(chars)
strip_chars(s, chars) == rstrip(lstrip(s, chars), chars)

\* str.strip()
strip(s) == strip_chars(s, Whitespace)

\* sep.join(words) for a one-character sep
RECURSIVE join(_, _)
join(sep, words) ==
    IF words = <<>> THEN <<>>
    ELSE IF Len(words) = 1 THEN words[1]
    ELSE words[1] \o <<sep>> \o join(sep, Tail(words))

\* str.replace(old, new) for one-character old and new
replace(s, old, new) ==
    [i \in 1..Len(s) |-> IF s[i] = old THEN new ELSE s[i]]

\* str.startswith(prefix)
startswith(s, prefix) ==
    /\ Len(prefix) <= Len(s)
    /\ SubSeq(s, 1, Len(prefix)) = prefix

\* str.split(sep) for a one-character sep
RECURSIVE split(_, _, _)
split(s, sep, cur) ==
    IF s = <<>> THEN <<cur>>
    ELSE IF Head(s) = sep
         THEN <<cur>> \o split(Tail(s), sep, <<>>)
         ELSE split(Tail(s), sep, Append(cur, Head(s)))

(***************************************************************************)
(* pathlib (POSIX flavour)                                                 *)
(***************************************************************************)
DOT    == <<".">>
DOTDOT == <<".", ".">>

\* Path(s): empty and "." components are dropped, ".." is kept, a leading
\* "/" makes the path absolute.
Path(s) ==
    [abs   |-> s # <<>> /\ s[1] = "/",
     parts |-> SelectSeq(split(s, "/", <<>>),
                         LAMBDA c : c # <<>> /\ c # DOT)]

\* Path(".")
PathDot == [abs |-> FALSE, parts |-> <<>>]

\* base / p: an absolute right operand replaces the left one
Join(base, p) == IF p.abs THEN p.parts ELSE base \o p.parts

\* path.parent of an absolute path
Parent(p) == IF p = <<>> THEN <<>> ELSE SubSeq(p, 1, Len(p) - 1)

\* path.name
Name(p) == p[Len(p)]

\* str(path) of an absolute path
RECURSIVE StrOf(_)
StrOf(p) ==
    IF p = <<>> THEN <<"/">>
    ELSE IF Len(p) = 1 THEN <<"/">> \o p[1]
    ELSE StrOf(Parent(p)) \o <<"/">> \o Name(p)

\* path.relative_to(root) is component-wise: it raises ValueError unless
\* IsUnder(p, root)
IsUnder(p, root) ==
    /\ Len(root) <= Len(p)
    /\ SubSeq(p, 1, Len(root)) = root

relative_to(p, root) == SubSeq(p, Len(root) + 1, Len(p))

\* path.resolve() (os.path.realpath, not strict): ".." pops the resolved
\* prefix, a symbolic link is replaced by its target.
RECURSIVE ResolveFrom(_, _, _)
ResolveFrom(lk, cur, rest) ==
    IF rest = <<>> THEN cur
    ELSE LET c == Head(rest) IN
         IF c = DOTDOT THEN ResolveFrom(lk, Parent(cur), Tail(rest))
         ELSE LET nxt == Append(cur, c) IN
              IF nxt \in DOMAIN lk
              THEN ResolveFrom(lk, <<>>, lk[nxt] \o Tail(rest))
              ELSE ResolveFrom(lk, nxt, Tail(rest))

resolve(lk, p) == ResolveFrom(lk, <<>>, p)

(***************************************************************************)
(* Configuration (APP_CONFIG / AppConfig) and the filesystem layouts       *)
(***************************************************************************)
\* base_dir is /f; /f2 is a sibling whose name starts with the root's name,
\* /e another directory outside the root.
base_dir == << <<"f">> >>
Sibling  == << <<"f", "2">> >>
Outside  == << <<"e">> >>

\* pending_dir_name, "_pending_uploads", written "_p"
pending_dir_name == <<"_", "p">>

PendingPath == Append(base_dir, pending_dir_name)
LinkPath    == Append(base_dir, <<"l">>)

\* the symbolic-link layouts: none, or /f/l pointing to the sibling, to the
\* pending directory, or outside the root
LinkLayouts ==
    { <<>>,
      (LinkPath :> Sibling),
      (LinkPath :> PendingPath),
      (LinkPath :> Outside) }

InitDirs ==
    { <<>>, base_dir, PendingPath, Append(base_dir, <<"d">>), Sibling, Outside }

\* A content identity is <<k, i>>: the i-th file saved by upload request k;
\* the files present before any upload are <<0, i>>.
InitFiles ==
    (Append(base_dir, <<"a", ".", "t">>) :> <<0, 1>>) @@
    (Append(Sibling, <<"s">>) :> <<0, 2>>) @@
    (Append(Outside, <<"s">>) :> <<0, 3>>)

\* The filesystem as one value: d the real directories, f the regular files
\* (path -> content identity), lk the symbolic links.
FS(d, f, lk) == [d |-> d, f |-> f, lk |-> lk]

\* get_base_dir() / config.base_dir.resolve()
get_base_dir(fs) == resolve(fs.lk, base_dir)

\* get_pending_dir(): the resolved path (app.py also creates the directory,
\* see EnsurePending)
get_pending_dir(fs) == resolve(fs.lk, Append(base_dir, pending_dir_name))

\* Path.exists / is_dir / is_file follow symbolic links
exists(fs, p)  == resolve(fs.lk, p) \in fs.d \cup DOMAIN fs.f
is_dir(fs, p)  == resolve(fs.lk, p) \in fs.d
is_file(fs, p) == resolve(fs.lk, p) \in DOMAIN fs.f

(***************************************************************************)
(* PathSandbox: safe_rel_path, get_dir_safe, get_file_safe,                *)
(* get_pending_file_safe.  A result is [err, path]: err = 0 and the path   *)
(* returned, or the HTTP error raised (400 BadRequest, 404 NotFound).      *)
(***************************************************************************)
Ok(p)    == [err |-> 0, path |-> p]
Err(e)   == [err |-> e, path |-> <<>>]

HasDotDot(p) == \E i \in 1..Len(p.parts) : p.parts[i] = DOTDOT

\* safe_rel_path: [err, p] with p the pathlib path
safe_rel_path(rel) ==
    LET r == replace(strip(rel), "\\", "/") IN
    IF r \in {<<>>, <<".">>, <<"/">>} THEN [err |-> 0, p |-> PathDot]
    ELSE LET p == Path(r) IN
         IF HasDotDot(p)
         THEN [err |-> 400, p |-> PathDot]
         ELSE [err |-> 0, p |-> p]

\* app.py get_file_safe / get_pending_file_safe: Path(rel) as received
raw_rel_path(rel) ==
    LET p == Path(rel) IN
    IF HasDotDot(p)
    THEN [err |-> 400, p |-> PathDot]
    ELSE [err |-> 0, p |-> p]

\* the boundary check of all three functions: str(full).startswith(str(base))
InsideCheck(full, base) == startswith(StrOf(full), StrOf(base))

get_dir_safe(fe, fs, rel) ==
    LET base == get_base_dir(fs)
        rp   == safe_rel_path(rel)
    IN  IF rp.err # 0 THEN Err(rp.err)
        ELSE LET full == resolve(fs.lk, Join(base, rp.p)) IN
             IF ~InsideCheck(full, base) THEN Err(400)
             ELSE IF ~exists(fs, full) THEN Err(404)
             ELSE IF ~is_dir(fs, full) THEN Err(400)
             ELSE Ok(full)

\* get_file_safe without its pending exclusion
PendingCheckOmitted(full, pending) == FALSE

\* the pending exclusion of get_file_safe
PendingCheck(full, pending) == startswith(StrOf(full), StrOf(pending))

get_file_safe(fe, fs, rel) ==
    LET base == get_base_dir(fs)
        rp   == IF fe = "qt" THEN safe_rel_path(rel) ELSE raw_rel_path(rel)
    IN  IF rp.err # 0 THEN Err(rp.err)
        ELSE LET full == resolve(fs.lk, Join(base, rp.p)) IN
             IF ~InsideCheck(full, base) THEN Err(400)
             ELSE IF PendingCheck(full, get_pending_dir(fs)) THEN Err(404)
             ELSE Ok(full)

get_pending_file_safe(fe, fs, rel) ==
    LET base == get_pending_dir(fs)
        rp   == IF fe = "qt" THEN safe_rel_path(rel) ELSE raw_rel_path(rel)
    IN  IF rp.err # 0 THEN Err(rp.err)
        ELSE LET full == resolve(fs.lk, Join(base, rp.p)) IN
             IF ~InsideCheck(full, base) THEN Err(400)
             ELSE Ok(full)

(***************************************************************************)
(* Filesystem primitives                                                   *)
(***************************************************************************)
Prefixes(p) == { SubSeq(p, 1, i) : i \in 0..Len(p) }

\* path.mkdir(parents=True, exist_ok=True): [ok, fs]; it fails
\* (FileExistsError / NotADirectoryError) when the path or one of its
\* ancestors is a regular file.
mkdir_p(fs, p) ==
    LET real == resolve(fs.lk, p) IN
    IF \E a \in Prefixes(real) : a \in DOMAIN fs.f
    THEN [ok |-> FALSE, fs |-> fs]
    ELSE [ok |-> TRUE, fs |-> [fs EXCEPT !.d = @ \cup Prefixes(real)]]

\* where a path that does not exist yet is created: its parent resolved,
\* its own name kept
RealTarget(fs, p) == Append(resolve(fs.lk, Parent(p)), Name(p))

\* file.save(save_path): a new regular file with content identity id
save(fs, p, id) ==
    [fs EXCEPT !.f = (RealTarget(fs, p) :> id) @@ @]

\* path.unlink() of a resolved regular file
unlink(fs, real) ==
    [fs EXCEPT !.f = [q \in DOMAIN fs.f \ {real} |-> fs.f[q]]]

Rekey(p, src, dst) ==
    IF IsUnder(p, src) THEN dst \o relative_to(p, src) ELSE p

\* src.replace(dest) (os.rename) of a resolved src onto a dest that does not
\* exist: a regular file moves, a directory moves with everything below it;
\* a dangling symbolic link at dest is replaced.
rename(fs, src, dest) ==
    LET dst == RealTarget(fs, dest)
        nf  == { Rekey(q, src, dst) : q \in DOMAIN fs.f }
    IN  [d  |-> { Rekey(q, src, dst) : q \in fs.d },
         f  |-> [q \in nf |->
                    fs.f[CHOOSE o \in DOMAIN fs.f : Rekey(o, src, dst) = q]],
         lk |-> [q \in DOMAIN fs.lk \ {dst} |-> fs.lk[q]]]

\* os.rename refuses to move a directory into itself, or into a directory
\* that does not exist
RenameFails(fs, src, dest) ==
    LET dst == RealTarget(fs, dest) IN
    \/ IsUnder(dst, src)
    \/ Parent(dst) \notin fs.d

(***************************************************************************)
(* Names: Path.stem / Path.suffix and the numeric-suffix scheme            *)
(***************************************************************************)
\* position of the last "." of a name, 0 if none (str.rfind)
RECURSIVE rfind_dot(_, _)
rfind_dot(name, i) ==
    IF i = 0 THEN 0
    ELSE IF name[i] = "." THEN i ELSE rfind_dot(name, i - 1)

\* Path.suffix: from the last dot, unless it is the first or the last
\* character of the name
suffix(name) ==
    LET j == rfind_dot(name, Len(name)) IN
    IF 1 < j /\ j < Len(name) THEN SubSeq(name, j, Len(name)) ELSE <<>>

\* Path.stem
stem(name) ==
    LET j == rfind_dot(name, Len(name)) IN
    IF 1 < j /\ j < Len(name) THEN SubSeq(name, 1, j - 1) ELSE name

Digit(n) ==
    CASE n = 0 -> "0" [] n = 1 -> "1" [] n = 2 -> "2" [] n = 3 -> "3"
      [] n = 4 -> "4" [] n = 5 -> "5" [] n = 6 -> "6" [] n = 7 -> "7"
      [] n = 8 -> "8" [] n = 9 -> "9"

\* str(counter)
RECURSIVE ToStr(_)
ToStr(n) ==
    IF n < 10 THEN <<Digit(n)>>
    ELSE ToStr(n \div 10) \o <<Digit(n % 10)>>

\* f"{stem}_{counter}{suffix}"
Suffixed(st, counter, sf) == st \o <<"_">> \o ToStr(counter) \o sf

\* the collision loop of upload and approve:
\*   counter = 1
\*   while path.exists(): path = parent / f"{stem}_{counter}{suffix}"
RECURSIVE CollisionLoop(_, _, _, _, _)
CollisionLoop(fs, parent, st, sf, counter) ==
    LET cand == Append(parent, Suffixed(st, counter, sf)) IN
    IF exists(fs, cand)
    THEN CollisionLoop(fs, parent, st, sf, counter + 1)
    ELSE cand

\* the path kept whether or not it exists
FreePathUnchecked(fs, path) == path

\* if path.exists(): <collision loop>
FreePath(fs, path) ==
    IF exists(fs, path)
    THEN CollisionLoop(fs, Parent(path), stem(Name(path)), suffix(Name(path)), 1)
    ELSE path

(***************************************************************************)
(* PendingUploadStore: staging (upload), approve, reject                   *)
(***************************************************************************)
\* the characters of the model's alphabet that werkzeug's
\* _filename_ascii_strip_re, [^A-Za-z0-9_.-], keeps
SafeChars ==
    {"a", "b", "d", "e", "f", "l", "p", "s", "t", "_", ".", "-",
     "0", "1", "2", "3", "4", "5", "6", "7", "8", "9"}

\* werkzeug.utils.secure_filename on a POSIX host: "/" becomes a blank, the
\* blank-separated words are joined by "_", the characters outside
\* [A-Za-z0-9_.-] are removed, "." and "_" are stripped from both ends.
secure_filename(filename) ==
    LET words   == SelectSeq(split(replace(filename, "/", " "), " ", <<>>),
                             LAMBDA w : w # <<>>)
        cleaned == SelectSeq(join("_", words), LAMBDA c : c \in SafeChars)
    IN  strip_chars(cleaned, {".", "_"})

\* str(relative path): the components joined by "/", "." when there is none
RelStr(parts) == IF parts = <<>> THEN <<".">> ELSE join("/", parts)

\* app.py get_pending_dir(): pending.mkdir(exist_ok=True)
EnsurePending(fe, fs) ==
    IF fe = "tk"
    THEN [fs EXCEPT !.d = @ \cup {resolve(fs.lk, Append(base_dir, pending_dir_name))}]
    ELSE fs

\* the loop of upload over request.files.getlist("files"), from file i on.
\* [exc, fs, rels, disp]: exc when relative_to raised, rels the
\* saved_relpaths_inside_pending, disp the original_names.
RECURSIVE SaveLoop(_, _, _, _, _, _, _, _)
SaveLoop(fs, pending_root, tdir, names, k, i, rels, disp) ==
    IF i > Len(names)
    THEN [exc |-> FALSE, fs |-> fs, rels |-> rels, disp |-> disp]
    ELSE LET filename == secure_filename(names[i]) IN
         IF names[i] = <<>> \/ filename = <<>>
         THEN SaveLoop(fs, pending_root, tdir, names, k, i + 1, rels, disp)
         ELSE LET save_path == FreePath(fs, Append(tdir, filename))
                  fs1       == save(fs, save_path, <<k, Len(rels) + 1>>)
              IN  IF ~IsUnder(save_path, pending_root)
                  THEN [exc |-> TRUE, fs |-> fs1, rels |-> rels, disp |-> disp]
                  ELSE SaveLoop(fs1, pending_root, tdir, names, k, i + 1,
                           Append(rels,
                               replace(RelStr(relative_to(save_path, pending_root)),
                                       "\\", "/")),
                           Append(disp, filename))

\* the answer of upload once the loop over the files has run: 500 when
\* relative_to raised, the redirect otherwise
Saved(sl) ==
    IF sl.exc
    THEN [status |-> 500, fs |-> sl.fs, rels |-> <<>>, disp |-> <<>>]
    ELSE [status |-> 302, fs |-> sl.fs, rels |-> sl.rels, disp |-> sl.disp]

\* the upload handler, request number k, form field p, the submitted
\* filenames (none: no "files" part).  [status, fs, rels, disp]; a
\* notification is produced iff rels is not empty.
upload(fe, fs, k, p, names) ==
    LET current_rel == strip(p)
        checked     == get_dir_safe(fe, fs, current_rel)
        none        == [fs |-> fs, rels |-> <<>>, disp |-> <<>>]
    IN  IF names = <<>> THEN [status |-> 302] @@ none
        ELSE IF checked.err # 0
        THEN [status |-> IF fe = "qt" THEN 400 ELSE checked.err] @@ none
        ELSE LET fs1          == EnsurePending(fe, fs)
                 pending_root == get_pending_dir(fs1)
                 target_rel   == safe_rel_path(current_rel).p
                 tdir         == Join(pending_root, target_rel)
                 made         == mkdir_p(fs1, tdir)
             IN  IF ~made.ok THEN [status |-> 500] @@ [none EXCEPT !.fs = fs1]
                 ELSE Saved(SaveLoop(made.fs, pending_root, tdir, names,
                                     k, 1, <<>>, <<>>))

\* approve_pending_file (app.py), the body of approve_file (server.py) and
\* one iteration of UploadDialog.on_approve (gui.py): [exc, fs]
approve_pending_file(fe, fs0, rel_inside_pending) ==
    LET fs           == EnsurePending(fe, fs0)
        pending_root == get_pending_dir(fs)
        pending_path == resolve(fs.lk, Join(pending_root, Path(rel_inside_pending)))
    IN  IF ~exists(fs, pending_path) THEN [exc |-> FALSE, fs |-> fs]
        ELSE IF ~IsUnder(pending_path, pending_root)
        THEN [exc |-> TRUE, fs |-> fs]
        ELSE LET rel_inside == relative_to(pending_path, pending_root)
                 dest0      == (IF fe = "tk" THEN get_base_dir(fs) ELSE base_dir)
                                   \o rel_inside
                 made       == mkdir_p(fs, Parent(dest0))
             IN  IF ~made.ok THEN [exc |-> TRUE, fs |-> fs]
                 ELSE LET dest == FreePath(made.fs, dest0) IN
                      IF RenameFails(made.fs, pending_path, dest)
                      THEN [exc |-> TRUE, fs |-> made.fs]
                      ELSE [exc |-> FALSE,
                            fs  |-> rename(made.fs, pending_path, dest)]

\* a reject without the is_file() test: whatever lies at the path goes,
\* a directory with the files below it
reject_whatever_exists(fe, fs0, rel_inside_pending) ==
    LET fs           == EnsurePending(fe, fs0)
        pending_root == get_pending_dir(fs)
        pending_path == resolve(fs.lk, Join(pending_root, Path(rel_inside_pending)))
    IN  [fs EXCEPT !.f = [q \in { o \in DOMAIN fs.f : ~IsUnder(o, pending_path) }
                            |-> fs.f[q]]]

\* reject_pending_file (app.py), the body of reject_file (server.py) and
\* one iteration of UploadDialog.on_reject (gui.py)
reject_pending_file(fe, fs0, rel_inside_pending) ==
    LET fs           == EnsurePending(fe, fs0)
        pending_root == get_pending_dir(fs)
        pending_path == resolve(fs.lk, Join(pending_root, Path(rel_inside_pending)))
    IN  IF pending_path \in DOMAIN fs.f THEN unlink(fs, pending_path) ELSE fs

(***************************************************************************)
(* The HTTP routes.  A response is [status, served, fs]: served is the     *)
(* content identity of the file whose bytes are sent, NoFile if none.      *)
(***************************************************************************)
NoFile == <<0, 0>>

Resp(status, served, fs) == [status |-> status, served |-> served, fs |-> fs]

\* the username every client logs in with
user == <<"u", "s", "e", "r">>

\* a check of the password alone
check_auth_any_user(pw, auth) ==
    IF pw = <<>> THEN TRUE
    ELSE IF auth.kind = "none" THEN FALSE
    ELSE auth.password = pw

\* check_auth(auth)
check_auth(pw, auth) ==
    IF pw = <<>> THEN TRUE
    ELSE IF auth.kind = "none" THEN FALSE
    ELSE auth.username = user /\ auth.password = pw

\* requires_auth(f): TRUE when the decorated handler f runs, FALSE when
\* authenticate() answers in its place
requires_auth(pw, auth) ==
    IF pw = <<>> THEN TRUE ELSE check_auth(pw, auth)

\* every caller is the administrator
is_admin_always(fe, addr) == TRUE

\* is_admin_request()
is_admin_request(fe, addr) ==
    IF fe = "tk"
    THEN addr \in {"127.0.0.1", "::1", "0:0:0:0:0:0:0:1"}
    ELSE addr \in {"127.0.0.1", "::1", "0:0:0:0:0:0:1"}

\* get_file_safe as the routes see it: server.py turns every exception into
\* 404; app.py's get_file_safe creates the pending directory on its way
\* (get_pending_dir) once the boundary check has passed.
FileLookup(fe, fs, filename) ==
    LET r == get_file_safe(fe, fs, filename) IN
    [err  |-> IF r.err # 0 /\ fe = "qt" THEN 404 ELSE r.err,
     path |-> r.path,
     fs   |-> IF fe = "tk" /\ r.err \in {0, 404} THEN EnsurePending(fe, fs) ELSE fs]

\* /player/<path:filename>
stream_page(fe, fs, filename) ==
    LET r == FileLookup(fe, fs, filename) IN
    IF r.err # 0 THEN Resp(r.err, NoFile, r.fs)
    ELSE IF ~exists(r.fs, r.path) THEN Resp(404, NoFile, r.fs)
    ELSE Resp(200, NoFile, r.fs)

\* flask.send_from_directory(directory, path): werkzeug's safe_join refuses
\* an absolute path and a ".." segment, and the file must be a regular file
send_from_directory(fs, directory, path) ==
    LET p == Path(path) IN
    IF p.abs \/ HasDotDot(p) THEN Resp(404, NoFile, fs)
    ELSE LET real == resolve(fs.lk, directory \o p.parts) IN
         IF real \in DOMAIN fs.f THEN Resp(200, fs.f[real], fs)
         ELSE Resp(404, NoFile, fs)

\* /download/<path:filename>
download_file(fe, fs, filename) ==
    LET r == FileLookup(fe, fs, filename) IN
    IF r.err # 0 THEN Resp(r.err, NoFile, r.fs)
    ELSE IF ~exists(r.fs, r.path) THEN Resp(404, NoFile, r.fs)
    ELSE send_from_directory(r.fs,
             IF fe = "tk" THEN get_base_dir(r.fs) ELSE base_dir, filename)

\* /stream/<path:filename> without a Range header: the whole file; open()
\* of a directory raises in iter_file
stream_file(fe, fs, filename) ==
    LET r == FileLookup(fe, fs, filename) IN
    IF r.err # 0 THEN Resp(r.err, NoFile, r.fs)
    ELSE IF ~exists(r.fs, r.path) THEN Resp(404, NoFile, r.fs)
    ELSE IF r.path \in DOMAIN r.fs.f THEN Resp(200, r.fs.f[r.path], r.fs)
    ELSE Resp(500, NoFile, r.fs)

\* the characters \d matches
IsDigit(c) == \E n \in 0..9 : Digit(n) = c

\* int(s) of a string of decimal digits
RECURSIVE int(_)
int(s) ==
    IF s = <<>> THEN 0
    ELSE 10 * int(SubSeq(s, 1, Len(s) - 1))
         + (CHOOSE n \in 0..9 : Digit(n) = s[Len(s)])

\* str(n) of an integer
str(n) == IF n < 0 THEN <<"-">> \o ToStr(0 - n) ELSE ToStr(n)

\* the longest run of digits of s that starts at position i: what a greedy
\* \d+ or \d* takes when the pattern that follows cannot start with a digit
RECURSIVE digits_at(_, _)
digits_at(s, i) ==
    IF i <= Len(s) /\ IsDigit(s[i]) THEN <<s[i]>> \o digits_at(s, i + 1)
    ELSE <<>>

\* re.match(r"bytes=(\d+)-(\d*)", range_header): the pattern is matched at
\* the start of the string and what follows the match is not looked at
re_match(s) ==
    LET prefix == <<"b", "y", "t", "e", "s", "=">>
        group1 == digits_at(s, 7)
        dash   == 7 + Len(group1)
        group2 == digits_at(s, dash + 1)
    IN  IF /\ Len(s) >= 6
           /\ SubSeq(s, 1, 6) = prefix
           /\ group1 # <<>>
           /\ dash <= Len(s)
           /\ s[dash] = "-"
        THEN [match |-> TRUE, group1 |-> group1, group2 |-> group2]
        ELSE [match |-> FALSE, group1 |-> <<>>, group2 |-> <<>>]

min(a, b) == IF a <= b THEN a ELSE b

\* iter_file(path, start, end): the number of bytes the generator yields
\* from a file of file_size bytes, chunk by chunk
chunk_size == 1048576

RECURSIVE read_loop(_, _, _)
read_loop(file_size, pos, remaining) ==
    IF remaining > 0
    THEN LET chunk == min(min(chunk_size, remaining),
                          IF pos < file_size THEN file_size - pos ELSE 0)
         IN  IF chunk = 0 THEN 0
             ELSE chunk + read_loop(file_size, pos + chunk, remaining - chunk)
    ELSE 0

iter_file_exclusive(file_size, start, end) ==
    read_loop(file_size, start, end - start)

iter_file(file_size, start, end) == read_loop(file_size, start, end - start + 1)

\* the answer of /stream: status, Content-Range, Content-Length, bytes of
\* the body
Ranged(status, range, length, sent) ==
    [status |-> status, range |-> range, length |-> length, sent |-> sent]

\* /stream/<path:filename> from "file_size = full_path.stat().st_size" on,
\* for a regular file of file_size bytes
stream_range(file_size, hdr) ==
    IF hdr.present /\ hdr.value # <<>>
    THEN LET match == re_match(hdr.value) IN
         IF ~match.match THEN Ranged(416, <<>>, 0, 0)
         ELSE LET start == int(match.group1)
                  end0  == IF match.group2 # <<>> THEN int(match.group2)
                           ELSE file_size - 1
              IN  IF start >= file_size THEN Ranged(416, <<>>, 0, 0)
                  ELSE LET end == min(end0, file_size - 1)
                           content_length == end - start + 1
                       IN  Ranged(206,
                                  <<"b", "y", "t", "e", "s", " ">> \o str(start)
                                    \o <<"-">> \o str(end) \o <<"/">>
                                    \o str(file_size),
                                  content_length,
                                  iter_file(file_size, start, end))
    ELSE Ranged(200, <<>>, file_size, iter_file(file_size, 0, file_size - 1))

\* /delete/<path:filename>
delete_file(fe, fs, filename, addr) ==
    IF ~is_admin_request(fe, addr) THEN Resp(403, NoFile, fs)
    ELSE LET r == FileLookup(fe, fs, filename) IN
         IF r.err # 0
         THEN Resp(IF fe = "qt" THEN 302 ELSE r.err, NoFile, r.fs)
         ELSE IF r.path \in DOMAIN r.fs.f
              THEN Resp(302, NoFile, unlink(r.fs, r.path))
              ELSE Resp(302, NoFile, r.fs)

\* /approve/<path:filename>
approve_file(fe, fs, filename, addr) ==
    IF ~is_admin_request(fe, addr) THEN Resp(403, NoFile, fs)
    ELSE LET r == approve_pending_file(fe, fs, filename) IN
         Resp(IF r.exc THEN 500 ELSE 302, NoFile, r.fs)

\* /reject/<path:filename>
reject_file(fe, fs, filename, addr) ==
    IF ~is_admin_request(fe, addr) THEN Resp(403, NoFile, fs)
    ELSE Resp(302, NoFile, reject_pending_file(fe, fs, filename))

(***************************************************************************)
(* DirectoryCatalog: list_dir and the index page                           *)
(***************************************************************************)
\* the characters of the model in the order of their code points
CodePoints ==
    << " ", "-", ".", "/", "0", "1", "2", "3", "4", "5", "6", "7", "8", "9",
       "A", "D", "T", "\\", "_", "a", "b", "d", "e", "f", "l", "p", "s", "t",
       "x" >>

ord(c) == CHOOSE i \in DOMAIN CodePoints : CodePoints[i] = c

\* str.lower()
lower(s) ==
    [i \in DOMAIN s |->
        CASE s[i] = "A" -> "a" [] s[i] = "D" -> "d" [] s[i] = "T" -> "t"
          [] OTHER -> s[i]]

\* a < b for two str
RECURSIVE StrLess(_, _)
StrLess(a, b) ==
    IF b = <<>> THEN FALSE
    ELSE IF a = <<>> THEN TRUE
    ELSE IF Head(a) # Head(b) THEN ord(Head(a)) < ord(Head(b))
    ELSE StrLess(Tail(a), Tail(b))

\* sorted(names, key=lambda n: n.lower())
RECURSIVE sorted(_)
sorted(names) ==
    IF names = {} THEN <<>>
    ELSE LET first == CHOOSE n \in names :
                         \A o \in names \ {n} : ~StrLess(lower(o), lower(n))
         IN  <<first>> \o sorted(names \ {first})

\* current_dir.iterdir(): the names of the directories, the files and the
\* symbolic links that lie in a resolved directory
iterdir(fs, dir) ==
    { Name(q) : q \in { o \in fs.d \cup DOMAIN fs.f \cup DOMAIN fs.lk :
                           o # <<>> /\ Parent(o) = dir } }

\* every entry is listed
skip_nothing(fs, entry) == FALSE

\* if entry.is_dir() and entry.name == pending_dir_name: continue
skip_pending(fs, entry) ==
    is_dir(fs, resolve(fs.lk, entry)) /\ Name(entry) = pending_dir_name

\* list_dir(current_dir): [exc, folders, files], each in the order of
\* name.lower().  entry.relative_to(base) raises ValueError for an entry
\* outside the base: utils.py skips the entry, app.py lets it out; stat()
\* of a link to nothing raises in both.
list_dir(fe, fs, sz, current_dir) ==
    LET base    == get_base_dir(fs)
        entry(n) == Append(current_dir, n)
        real(n)  == resolve(fs.lk, entry(n))
        kept    == { n \in iterdir(fs, current_dir) : ~skip_pending(fs, entry(n)) }
        outside == { n \in kept : ~IsUnder(entry(n), base) }
        listed  == IF fe = "qt" THEN kept \ outside ELSE kept
        isdir(n) == is_dir(fs, real(n))
        broken  == { n \in listed : ~isdir(n) /\ real(n) \notin DOMAIN fs.f }
        relp(n) == replace(RelStr(relative_to(entry(n), base)), "\\", "/")
        names   == sorted(listed)
    IN  IF (fe = "tk" /\ outside # {}) \/ broken # {}
        THEN [exc |-> TRUE, folders |-> <<>>, files |-> <<>>]
        ELSE [exc |-> FALSE,
              folders |->
                 LET ds == SelectSeq(names, isdir) IN
                 [i \in DOMAIN ds |->
                     [name |-> ds[i], relpath |-> relp(ds[i]),
                      items_count |-> Cardinality(iterdir(fs, real(ds[i])))]],
              files |->
                 LET fl == SelectSeq(names, LAMBDA n : ~isdir(n)) IN
                 [i \in DOMAIN fl |->
                     [name |-> fl[i], relpath |-> relp(fl[i]),
                      size |-> sz[fs.f[real(fl[i])]]]]]

\* list_pending_files(): the relpath of every file below the pending root
\* (os.walk does not follow the links to directories)
list_pending_files(fs) ==
    LET pending_dir == get_pending_dir(fs) IN
    { replace(RelStr(relative_to(q, pending_dir)), "\\", "/") :
        q \in { o \in DOMAIN fs.f : IsUnder(o, pending_dir) } }

\* GET /?p=... with no filter and the default order (by name, which is the
\* order of list_dir): [status, fs, folders, files, pending]; the pending
\* list goes to the local host only
index(fe, fs, sz, p, addr) ==
    LET current_rel == strip(p)
        cd   == get_dir_safe(fe, fs, current_rel)
        none == [folders |-> <<>>, files |-> <<>>, pending |-> {}]
    IN  IF cd.err # 0
        THEN [status |-> IF fe = "qt" THEN 404 ELSE cd.err, fs |-> fs] @@ none
        ELSE LET ls  == list_dir(fe, fs, sz, cd.path)
                 fs1 == IF is_admin_request(fe, addr)
                        THEN EnsurePending(fe, fs) ELSE fs
             IN  IF ls.exc THEN [status |-> 500, fs |-> fs] @@ none
                 ELSE [status |-> 200, fs |-> fs1, folders |-> ls.folders,
                       files |-> ls.files,
                       pending |-> IF is_admin_request(fe, addr)
                                   THEN list_pending_files(fs1) ELSE {}]

(***************************************************************************)
(* The dialogs: do_approve / do_reject (app.py), on_approve / on_reject    *)
(* (gui.py) over the notification's pending_relpaths                       *)
(***************************************************************************)
\* a loop that returns after the first listed path
on_approve_first_only(fe, fs, rels, i) ==
    IF i > Len(rels) THEN [exc |-> FALSE, fs |-> fs]
    ELSE approve_pending_file(fe, fs, rels[i])

RECURSIVE on_approve(_, _, _, _)
on_approve(fe, fs, rels, i) ==
    IF i > Len(rels) THEN [exc |-> FALSE, fs |-> fs]
    ELSE LET r == approve_pending_file(fe, fs, rels[i]) IN
         IF r.exc THEN r ELSE on_approve(fe, r.fs, rels, i + 1)

RECURSIVE on_reject(_, _, _, _)
on_reject(fe, fs, rels, i) ==
    IF i > Len(rels) THEN fs
    ELSE on_reject(fe, reject_pending_file(fe, fs, rels[i]), rels, i + 1)

(***************************************************************************)
(* The inputs of the requests                                              *)
(***************************************************************************)
s_at == <<"a", ".", "t">>

\* the form field p of /upload: the root, a folder, the pending directory,
\* the symbolic link, two absolute paths, a missing folder, a traversal
FormInputs ==
    { <<>>, <<"d">>, <<"_", "p">>, <<"l">>,
      <<"/", "f", "/", "d">>, <<".", ".">> }

\* the filenames a client submits: a name, and one that sanitizes to ""
FileNameInputs == { s_at, <<".", ".">> }

NameLists == UNION { [1..n -> FileNameInputs] : n \in 0..MaxFiles }

\* the <path:filename> of /player, /download, /stream and /delete
ContentInputs ==
    { s_at,
      <<"d">>,
      <<"_", "p", "/">> \o s_at,
      <<"_", "p", "/", "d", "/">> \o s_at,
      <<"l", "/">> \o s_at,
      <<"l", "/", "s">>,
      <<"_", "p", "/", ".", ".", "/", "_", "p", "/">> \o s_at,
      <<"x">> }

\* the <path:filename> of /approve and /reject: what the page lists, and
\* paths typed by hand
ModerationInputs(fs) ==
    list_pending_files(fs) \cup
    { <<".", ".", "/">> \o s_at, <<".">> }

\* request.remote_addr: the local administrator and another host
Addrs == { "127.0.0.1", "192.168.1.7" }

(***************************************************************************)
(* The state machine                                                       *)
(***************************************************************************)
Moved(f, g)   == { m \in (DOMAIN f) \X (DOMAIN g) : m[1] # m[2] /\ f[m[1]] = g[m[2]] }
Deleted(f, g) == { q \in DOMAIN f : \A o \in DOMAIN g : g[o] # f[q] }
Created(f, g) == { q \in DOMAIN g : \A o \in DOMAIN f : f[o] # g[q] }

NoNote == [req |-> 0, pending_relpaths |-> <<>>, display_names |-> <<>>]

CurFS == FS(dirs, files, links)

\* the new filesystem and the record of the operation
Outcome(op, arg, addr, status, served, path, note, fs) ==
    /\ dirs' = fs.d
    /\ files' = fs.f
    /\ links' = fs.lk
    /\ last' = [op |-> op, arg |-> arg, addr |-> addr, status |-> status,
                served |-> served, path |-> path, note |-> note,
                moved |-> Moved(files, fs.f),
                deleted |-> Deleted(files, fs.f),
                created |-> Created(files, fs.f)]

\* the content identities: the three files on the disk at the start and
\* the i-th file of the k-th upload request
ContentIds ==
    { <<0, 1>>, <<0, 2>>, <<0, 3>> } \cup ((1..MaxUploads) \X (1..MaxFiles))

\* the threads of the program: two workers of the threaded HTTP server
\* (make_server(..., threaded=True)) and the thread of the user interface
Workers == { "w1", "w2" }
Threads == Workers \cup { "ui" }

\* a thread that is not inside a handler
Idle == [pc |-> "idle", op |-> "", arg |-> <<>>, src |-> <<>>,
         dest |-> <<>>, req |-> 0]

\* request.authorization of a request without an Authorization header
NoAuth == [kind |-> "none", username |-> <<>>, password |-> <<>>]

\* request.headers.get("Range", None) of a request without a Range header
NoRange == [present |-> FALSE, value |-> <<>>]

\* no generator: no response body is being produced
NoGen ==
    [pc |-> "none", start |-> 0, end |-> 0, chunk_size |-> 0, f |-> "none",
     pos |-> 0, remaining |-> 0, out |-> <<>>, raised |-> FALSE,
     closed |-> FALSE]

\* a server thread: where it is in run_flask / ServerThread.run ("started",
\* "flagged", "bound", "serving", "finished"), whether shutdown() has been
\* called on its server, whether make_server raised in it
ServerThread(pc) == [pc |-> pc, shutdown |-> FALSE, failed |-> FALSE]

\* AppConfig / APP_CONFIG
Config(dir, host, port, pw) ==
    [base_dir |-> dir, host |-> host, port |-> port, password |-> pw]

\* the life cycle while a server started on base_dir serves: the state the
\* routes run in
Serving ==
    [config |-> Config(base_dir, "0.0.0.0", 4142, <<>>),
     server_running |-> TRUE, srv |-> 1, server_thread |-> 1,
     pool |-> <<ServerThread("serving")>>,
     start_btn |-> FALSE, stop_btn |-> TRUE, waits |-> 0, box |-> ""]

\* a response with no header and no body of interest
NoReply == [challenge |-> FALSE, range |-> <<>>, length |-> 0, sent |-> 0,
            folders |-> <<>>, files |-> <<>>, pending |-> {}]

\* the state once a server has been started on base_dir: the pending
\* directory exists, nothing is staged; the password is the
\* administrator's, the size of the files the disk's, the credentials those
\* the client's browser sends with every request
InitEnv(layouts, args, passwords, sizes, auths, ranges, lives) ==
    /\ password \in passwords
    /\ creds \in auths
    /\ range_header \in ranges
    /\ life \in lives
    /\ gen = NoGen
    /\ \E n \in sizes : st_size = [id \in ContentIds |-> n]
    /\ threads = [t \in Threads |-> Idle]
    /\ reply = NoReply
    /\ frontend \in {"tk", "qt"}
    /\ links \in layouts
    /\ dirs = InitDirs
    /\ files = InitFiles
    /\ queue = <<>>
    /\ dialogs = <<>>
    /\ nreq = 0
    /\ hist = <<>>
    /\ \E arg \in args :
          last = [op |-> "init", arg |-> arg, addr |-> "", status |-> 0,
                  served |-> NoFile, path |-> <<>>, note |-> NoNote,
                  moved |-> {}, deleted |-> {}, created |-> {}]

\* no password (AppConfig.password = "", APP_CONFIG["password"] = ""),
\* files of one byte, a client without credentials
InitWith(layouts, args) ==
    InitEnv(layouts, args, {<<>>}, {1}, {NoAuth}, {NoRange}, {Serving})

Init == InitWith({<<>>}, {<<>>})

\* a request to a route that answers r = [status, served, fs]: only the
\* filesystem and the record of the operation change
Routed(op, arg, addr, r) ==
    /\ Outcome(op, arg, addr, r.status, r.served, <<>>, NoNote, r.fs)
    /\ UNCHANGED <<life, gen, range_header, creds, password, st_size, threads, reply,
                   frontend, queue, dialogs, nreq, hist>>

Player(filename) ==
    Routed("player", filename, "",
           stream_page(frontend, CurFS, filename))

Download(filename) ==
    Routed("download", filename, "",
           download_file(frontend, CurFS, filename))

Stream(filename) ==
    Routed("stream", filename, "",
           stream_file(frontend, CurFS, filename))

Delete(filename, addr) ==
    Routed("delete", filename, addr,
           delete_file(frontend, CurFS, filename, addr))

\* a channel of one slot: put_nowait raises queue.Full, which upload
\* swallows
put_nowait_bounded(q, note) == IF q # <<>> THEN q ELSE Append(q, note)

\* UPLOAD_REQUESTS.put_nowait(upload_info) on queue.Queue(), which has no
\* capacity, and upload_request.emit(upload_info), a queued signal: the
\* notification is appended and the caller goes on
put_nowait(q, note) == Append(q, note)

\* the end of upload, request number k with the result r of the handler:
\* the notification is built and enqueued iff a file was saved
UploadDone(k, p, r, note) ==
    /\ Outcome("upload", p, "", r.status, NoFile, <<>>,
               IF r.rels # <<>> THEN note ELSE NoNote, r.fs)
    /\ nreq' = k
    /\ queue' = IF r.rels # <<>> THEN put_nowait(queue, note) ELSE queue
    /\ hist' = Append(hist,
           [saved |-> { r.fs.f[q] : q \in Created(files, r.fs.f) },
            notified |-> IF r.rels # <<>> THEN 1 ELSE 0,
            shown |-> 0, approves |-> 0, rejects |-> 0])
    /\ UNCHANGED <<life, gen, range_header, creds, password, st_size,
                   threads, reply, frontend, dialogs>>

\* upload_info of request k
UploadInfo(k, r) ==
    [req |-> k, pending_relpaths |-> r.rels, display_names |-> r.disp]

UploadResult(k, p, r) == UploadDone(k, p, r, UploadInfo(k, r))

\* POST /upload: the notification goes to UPLOAD_REQUESTS (put_nowait on an
\* unbounded queue) or is emitted as a queued signal
Upload(p, names) ==
    UploadResult(nreq + 1, p, upload(frontend, CurFS, nreq + 1, p, names))

ApproveRoute(filename, addr) ==
    /\ Cardinality(dirs) <= MaxDirs
    /\ Routed("approve", filename, addr,
              approve_file(frontend, CurFS, filename, addr))

RejectRoute(filename, addr) ==
    Routed("reject", filename, addr,
           reject_file(frontend, CurFS, filename, addr))

\* a tick that presents the first queued notification and discards the
\* others
PollFirstOnly ==
    /\ frontend = "tk"
    /\ queue # <<>>
    /\ dialogs' = Append(dialogs, Head(queue))
    /\ queue' = <<>>
    /\ hist' = [hist EXCEPT ![Head(queue).req].shown = @ + 1]
    /\ last' = [last EXCEPT !.op = "poll", !.arg = <<>>, !.addr = "",
                  !.status = 0, !.served = NoFile, !.note = NoNote,
                  !.moved = {}, !.deleted = {}, !.created = {}]
    /\ UNCHANGED <<life, gen, range_header, creds, password, st_size, threads, reply,
                   frontend, links, dirs, files, nreq>>

\* app.py check_upload_requests: one tick takes every queued notification
\* and opens a dialog for each
Poll ==
    /\ frontend = "tk"
    /\ queue # <<>>
    /\ dialogs' = dialogs \o queue
    /\ queue' = <<>>
    /\ hist' = [k \in DOMAIN hist |->
                  [hist[k] EXCEPT !.shown =
                      @ + Cardinality({ i \in DOMAIN queue : queue[i].req = k })]]
    /\ last' = [last EXCEPT !.op = "poll", !.arg = <<>>, !.addr = "",
                  !.status = 0, !.served = NoFile, !.note = NoNote,
                  !.moved = {}, !.deleted = {}, !.created = {}]
    /\ UNCHANGED <<life, gen, range_header, creds, password, st_size, threads, reply,
                   frontend, links, dirs, files, nreq>>

\* gui.py on_upload_request: the slot runs once per emitted signal and opens
\* a modal dialog (self.config is set once a server has been started)
Deliver ==
    /\ frontend = "qt"
    /\ queue # <<>>
    /\ dialogs' = Append(dialogs, Head(queue))
    /\ queue' = Tail(queue)
    /\ hist' = [hist EXCEPT ![Head(queue).req].shown = @ + 1]
    /\ last' = [last EXCEPT !.op = "deliver", !.arg = <<>>, !.addr = "",
                  !.status = 0, !.served = NoFile, !.note = Head(queue),
                  !.moved = {}, !.deleted = {}, !.created = {}]
    /\ UNCHANGED <<life, gen, range_header, creds, password, st_size, threads, reply,
                   frontend, links, dirs, files, nreq>>

\* the dialogs the administrator can act on: every Toplevel of app.py, the
\* topmost modal dialog of gui.py
Actionable ==
    IF frontend = "tk" THEN DOMAIN dialogs
    ELSE IF dialogs = <<>> THEN {} ELSE {Len(dialogs)}

Without(seq, i) == SubSeq(seq, 1, i - 1) \o SubSeq(seq, i + 1, Len(seq))

\* the end of Approve in dialog i, with the result r of the loop over the
\* listed paths
ApproveDone(i, note, r) ==
    /\ Outcome("dialog_approve", <<>>, "", IF r.exc THEN 500 ELSE 0,
               NoFile, <<>>, note, r.fs)
    /\ dialogs' = IF r.exc THEN dialogs ELSE Without(dialogs, i)
    /\ hist' = [hist EXCEPT ![note.req].approves = @ + 1]
    /\ UNCHANGED <<life, gen, range_header, creds, password, st_size,
                   threads, reply, frontend, queue, nreq>>

\* Approve pressed: the dialog closes unless approve raised
DialogApprove(i) ==
    /\ i \in Actionable
    /\ Cardinality(dirs) <= MaxDirs
    /\ ApproveDone(i, dialogs[i],
                   on_approve(frontend, CurFS, dialogs[i].pending_relpaths, 1))

\* the end of Reject in dialog i, with the filesystem the loop leaves
RejectDone(i, note, fs) ==
    /\ Outcome("dialog_reject", <<>>, "", 0, NoFile, <<>>, note, fs)
    /\ dialogs' = Without(dialogs, i)
    /\ hist' = [hist EXCEPT ![note.req].rejects = @ + 1]
    /\ UNCHANGED <<life, gen, range_header, creds, password, st_size,
                   threads, reply, frontend, queue, nreq>>

\* Reject pressed and confirmed
DialogReject(i) ==
    /\ i \in Actionable
    /\ RejectDone(i, dialogs[i],
                  on_reject(frontend, CurFS, dialogs[i].pending_relpaths, 1))

\* Reject pressed and not confirmed: the dialog stays
DialogRejectNo(i) ==
    /\ i \in Actionable
    /\ Outcome("dialog_reject_no", <<>>, "", 0, NoFile, <<>>, dialogs[i], CurFS)
    /\ UNCHANGED <<life, gen, range_header, creds, password, st_size, threads, reply,
                   frontend, queue, dialogs, nreq, hist>>

\* the form field p of the uploads that feed the moderation bridge: the
\* root, a folder that is created below the pending root, an absolute
\* path, a traversal
BridgeForms == FormInputs \ { <<"d">>, <<"l">> }

\* uploads and the moderation bridge: the notifications and the dialogs
Next ==
    \/ /\ nreq < MaxUploads
       /\ \E p \in BridgeForms, names \in NameLists : Upload(p, names)
    \/ Poll
    \/ Deliver
    \/ \E i \in DOMAIN dialogs : DialogApprove(i)
    \/ \E i \in DOMAIN dialogs : DialogReject(i)
    \/ \E i \in DOMAIN dialogs : DialogRejectNo(i)

Spec == Init /\ [][Next]_vars

\* the moderation bridge under uploads of one file to the root or to a
\* folder: a name that is staged and notified, and one that sanitizes to ""
\* and is not
LiveNext ==
    \/ /\ nreq < MaxUploads
       /\ \E p \in { <<>>, <<"d">> }, name \in FileNameInputs :
             Upload(p, <<name>>)
    \/ Poll
    \/ Deliver
    \/ \E i \in DOMAIN dialogs : DialogApprove(i)
    \/ \E i \in DOMAIN dialogs : DialogReject(i)
    \/ \E i \in DOMAIN dialogs : DialogRejectNo(i)

\* the bridge while the user interface runs: check_upload_requests re-arms
\* itself with root.after(500, ...) at the end of every tick, and the Qt
\* event loop runs the slot of every queued signal
LiveSpec == Init /\ [][LiveNext]_vars /\ WF_vars(Poll) /\ WF_vars(Deliver)

\* moderation of one upload request through the web page and the dialogs
ModerationNext ==
    \/ /\ nreq < MaxStaged
       /\ \E p \in FormInputs, names \in NameLists : Upload(p, names)
    \/ \E filename \in ModerationInputs(CurFS), addr \in Addrs :
          ApproveRoute(filename, addr)
    \/ \E filename \in ModerationInputs(CurFS), addr \in Addrs :
          RejectRoute(filename, addr)
    \/ Poll
    \/ Deliver
    \/ \E i \in DOMAIN dialogs : DialogApprove(i)
    \/ \E i \in DOMAIN dialogs : DialogReject(i)
    \/ \E i \in DOMAIN dialogs : DialogRejectNo(i)

ModerationSpec == Init /\ [][ModerationNext]_vars

\* two upload requests of the same name into the same folder, moderated
\* from the page by the local administrator and from the dialogs: a pending
\* path that a decision has vacated is free for the next upload
ReuseNext ==
    \/ /\ nreq < MaxUploads
       /\ \E p \in { <<>>, <<"d">> } : Upload(p, <<s_at>>)
    \/ \E filename \in list_pending_files(CurFS) :
          ApproveRoute(filename, "127.0.0.1")
    \/ \E filename \in list_pending_files(CurFS) :
          RejectRoute(filename, "127.0.0.1")
    \/ Poll
    \/ Deliver
    \/ \E i \in DOMAIN dialogs : DialogApprove(i)
    \/ \E i \in DOMAIN dialogs : DialogReject(i)

ReuseSpec == Init /\ [][ReuseNext]_vars

\* the form field p of the uploads that are rejected: the root and a folder
RejectForms == { <<>>, <<"d">> }

\* uploads and their rejection, from the page and from the dialogs
RejectNext ==
    \/ /\ nreq < MaxStaged
       /\ \E p \in RejectForms, names \in { <<s_at>>, <<s_at, s_at>> } :
             Upload(p, names)
    \/ \E filename \in ModerationInputs(CurFS), addr \in Addrs :
          RejectRoute(filename, addr)
    \/ Poll
    \/ Deliver
    \/ \E i \in DOMAIN dialogs : DialogReject(i)
    \/ \E i \in DOMAIN dialogs : DialogRejectNo(i)

RejectSpec == Init /\ [][RejectNext]_vars

\* browsing clients: one upload request and the routes that read or delete
\* content, over every symbolic-link layout
ServeInit == InitWith(LinkLayouts, {<<>>})

ServeNext ==
    \/ /\ nreq < MaxStaged
       /\ \E p \in FormInputs : Upload(p, <<s_at>>)
    \/ \E filename \in ContentInputs : Player(filename)
    \/ \E filename \in ContentInputs : Download(filename)
    \/ \E filename \in ContentInputs : Stream(filename)
    \/ \E filename \in ContentInputs, addr \in Addrs : Delete(filename, addr)

ServeSpec == ServeInit /\ [][ServeNext]_vars

\* the page r = [status, fs, folders, files, pending] goes to the client
Page(p, addr, r) ==
    /\ Outcome("index", p, addr, r.status, NoFile, <<>>, NoNote, r.fs)
    /\ reply' = [NoReply EXCEPT !.folders = r.folders, !.files = r.files,
                                !.pending = r.pending]
    /\ UNCHANGED <<life, gen, range_header, creds, password, st_size,
                   threads, frontend, queue, dialogs, nreq, hist>>

\* GET /: the page of a folder
Index(p, addr) == Page(p, addr, index(frontend, CurFS, st_size, p, addr))

\* the query field p of the index page: the root, a folder, the pending
\* directory, the symbolic link, the sibling of the root, a missing folder,
\* a traversal
BrowseInputs ==
    { <<>>, <<"d">>, <<"_", "p">>, <<"l">>, <<"/", "f", "2">>, <<"x">>,
      <<".", ".">> }

\* browsing the folders while uploads are staged, over every symbolic-link
\* layout
BrowseNext ==
    \/ /\ nreq < MaxStaged
       /\ \E p \in FormInputs : Upload(p, <<s_at>>)
    \/ \E p \in BrowseInputs, addr \in Addrs : Index(p, addr)

BrowseSpec == ServeInit /\ [][BrowseNext]_vars

\* authenticate(): 401 with WWW-Authenticate: Basic realm="Login Required"
Authenticate(op, arg, addr) ==
    /\ Outcome(op, arg, addr, 401, NoFile, <<>>, NoNote, CurFS)
    /\ reply' = [NoReply EXCEPT !.challenge = TRUE]
    /\ UNCHANGED <<life, gen, range_header, creds, password, st_size, threads, frontend, queue,
                   dialogs, nreq, hist>>

\* the decorator of every route lets the handler run
Authorized == requires_auth(password, creds)

\* the configured passwords: none, and one
Passwords == { <<>>, <<"p", "w">> }

\* the credentials a client may send: none, the right ones, another
\* username with the right password
AuthInputs ==
    { NoAuth,
      [kind |-> "basic", username |-> user, password |-> <<"p", "w">>],
      [kind |-> "basic", username |-> <<"a">>, password |-> <<"p", "w">>] }

\* the path of the requests to the protected routes
AuthPaths == { s_at }

\* the paths of the requests to /approve, /reject and /delete: a file (a
\* staged one for the first two), and a missing one
AdminPaths == { s_at, <<"x">> }

AuthInit ==
    InitEnv({<<>>}, {<<>>}, Passwords, {1}, AuthInputs, {NoRange}, {Serving})

\* the routes, all decorated with @requires_auth
Routes ==
    { "index", "player", "download", "stream", "upload", "approve", "reject",
      "delete" }

\* every route behind the authentication wrapper: the handler runs, or
\* authenticate() answers in its place
AuthNext ==
    \/ /\ ~Authorized
       /\ \E op \in Routes, a \in Addrs :
             Authenticate(op, IF op \in {"index", "upload"} THEN <<>> ELSE s_at,
                          IF op \in {"index", "approve", "reject", "delete"}
                          THEN a ELSE "")
    \/ Authorized /\ \E a \in Addrs : Index(<<>>, a)
    \/ Authorized /\ \E f \in AuthPaths : Player(f)
    \/ Authorized /\ \E f \in AuthPaths : Download(f)
    \/ Authorized /\ \E f \in AuthPaths : Stream(f)
    \/ Authorized /\ nreq < MaxStaged /\ Upload(<<>>, <<s_at>>)
    \/ Authorized /\ \E f \in AdminPaths, a \in Addrs : ApproveRoute(f, a)
    \/ Authorized /\ \E f \in AdminPaths, a \in Addrs : RejectRoute(f, a)
    \/ Authorized /\ \E f \in AdminPaths, a \in Addrs : Delete(f, a)

AuthSpec == AuthInit /\ [][AuthNext]_vars

\* the response of /stream once the file has been looked up (r) and the
\* Range header handled (a)
StreamAnswer(filename, r, a) ==
    /\ Outcome("stream", filename, "", a.status,
               IF a.status \in {200, 206} THEN r.served ELSE NoFile,
               <<>>, NoNote, r.fs)
    /\ reply' = [NoReply EXCEPT !.range = a.range, !.length = a.length,
                                !.sent = a.sent]
    /\ UNCHANGED <<life, gen, range_header, creds, password, st_size, threads,
                   frontend, queue, dialogs, nreq, hist>>

\* the lookup of the file, then the Range header
StreamLookup(filename, r) ==
    /\ r.status # 500
    /\ StreamAnswer(filename, r,
                    IF r.status = 200
                    THEN stream_range(st_size[r.served], range_header)
                    ELSE Ranged(r.status, <<>>, 0, 0))

\* /stream/<path:filename> with the Range header of the client, for a path
\* that is not a directory (the st_size of a directory is the file
\* system's)
StreamRange(filename) ==
    StreamLookup(filename, stream_file(frontend, CurFS, filename))

\* "bytes=<start>-<end>" and "bytes=<start>-"
bytes_range(start, end) ==
    <<"b", "y", "t", "e", "s", "=">> \o str(start) \o <<"-">>
        \o (IF end < 0 THEN <<>> ELSE str(end))

\* the Range headers of the clients: none; single ranges with a start up to
\* 10 and an end that is absent or up to one more than the largest size, as
\* they are, followed by a second range, and followed by a letter; an empty
\* value, a suffix range, a letter for the start, another unit, a leading
\* space, no dash, no unit
RangeInputs ==
    { NoRange } \cup
    { [present |-> TRUE, value |-> bytes_range(start, end) \o tail] :
        start \in (0..(MaxSize + 1)) \cup {10},
        end \in (0 - 1)..(MaxSize + 1),
        tail \in { <<>>, <<",", "5", "-", "6">>, <<"x">> } } \cup
    { [present |-> TRUE, value |-> v] :
        v \in { <<>>,
                <<"b", "y", "t", "e", "s", "=", "-", "1">>,
                <<"b", "y", "t", "e", "s", "=", "a", "-", "1">>,
                <<"i", "t", "e", "m", "s", "=", "0", "-", "1">>,
                <<" ", "b", "y", "t", "e", "s", "=", "0", "-", "1">>,
                <<"b", "y", "t", "e", "s", "=", "0">>,
                <<"0", "-", "1">> } }

\* files of 0 to MaxSize bytes
RangeInit ==
    InitEnv({<<>>}, {<<>>}, {<<>>}, 0..MaxSize, {NoAuth}, RangeInputs,
            {Serving})

\* a file and a missing path
RangeNext == \E filename \in { s_at, <<"x">> } : StreamRange(filename)

RangeSpec == RangeInit /\ [][RangeNext]_vars

\* the form field p of /upload: the root, a folder, a traversal, a
\* traversal below a folder, the sibling of the root, a directory outside
\* the root, a missing folder, a file, the symbolic link
TargetInputs ==
    { <<>>, <<"d">>, <<".", ".">>, <<"d", "/", ".", ".">>, <<"/", "f", "2">>,
      <<"/", "e">>, <<"x">>, s_at, <<"l">> }

\* request.remote_addr: the local host by its IPv4 address and by the long
\* form of its IPv6 address, and another host
LocalAddrs == Addrs \cup { "0:0:0:0:0:0:0:1" }

\* the requests that may be refused: an upload to every kind of target, the
\* page of every kind of folder (the page of the root from every address),
\* and the three routes that read a file
ErrorNext ==
    \/ /\ nreq < MaxStaged
       /\ \E p \in TargetInputs : Upload(p, <<s_at>>)
    \/ \E r \in ((BrowseInputs \cup {s_at}) \X Addrs)
                   \cup ({<<>>} \X LocalAddrs) : Index(r[1], r[2])
    \/ \E filename \in ContentInputs : Player(filename)
    \/ \E filename \in ContentInputs : Download(filename)
    \/ \E filename \in ContentInputs : Stream(filename)

ErrorSpec == ServeInit /\ [][ErrorNext]_vars

(***************************************************************************)
(* The life cycle of the server: Start Server, Stop Server, the server     *)
(* thread                                                                  *)
(***************************************************************************)
\* the window before the first start: no thread, the module's defaults
\* (Start enabled, Stop disabled in the Qt window)
Stopped ==
    [config |-> Config(base_dir, "0.0.0.0", 4142, <<>>),
     server_running |-> FALSE, srv |-> 0, server_thread |-> 0,
     pool |-> <<>>,
     start_btn |-> TRUE, stop_btn |-> FALSE, waits |-> 0, box |-> ""]

\* self.server_thread and self.server_thread.isRunning()
isRunning(l) ==
    l.server_thread # 0 /\ l.pool[l.server_thread].pc # "finished"

\* the test at the top of start_server: the flag the server thread sets
\* (app.py), the thread object (gui.py)
AlreadyRunning(fe, l) ==
    IF fe = "tk" THEN l.server_running ELSE isRunning(l)

\* int(port_str) succeeds
IsInt(port_str) ==
    port_str # <<>> /\ \A k \in DOMAIN port_str : IsDigit(port_str[k])

\* start_server up to the start of the thread: the message box it ends
\* with, or "" when the configuration is written and the thread started
start_server(fe, fs, l, folder, host, port_str, pw) ==
    IF AlreadyRunning(fe, l) THEN [box |-> "already running", l |-> l]
    ELSE IF folder = <<>> THEN [box |-> "no folder", l |-> l]
    ELSE IF ~IsInt(port_str) THEN [box |-> "bad port", l |-> l]
    ELSE IF ~is_dir(fs, Path(folder).parts)
         THEN [box |-> "bad folder", l |-> l]
    ELSE [box |-> "",
          l |-> [l EXCEPT
                   !.config = Config(Path(folder).parts,
                                     IF host = "" THEN "0.0.0.0" ELSE host,
                                     int(port_str), pw),
                   !.pool = Append(@, ServerThread("started")),
                   !.server_thread = Len(l.pool) + 1,
                   !.start_btn = IF fe = "qt" THEN FALSE ELSE @,
                   !.stop_btn = IF fe = "qt" THEN TRUE ELSE @]]

\* the answer of start_server: r.box; the pending directory of the new root
\* is created when the thread is started
Started(folder, r) ==
    /\ Outcome("start_server", folder, "", 0, NoFile, <<>>, NoNote,
               IF r.box = ""
               THEN [CurFS EXCEPT !.d = @ \cup
                       {resolve(links, Append(r.l.config.base_dir,
                                              pending_dir_name))}]
               ELSE CurFS)
    /\ life' = [r.l EXCEPT !.box = r.box]
    /\ password' = r.l.config.password
    /\ UNCHANGED <<gen, range_header, creds, st_size, threads, reply, frontend,
                   queue, dialogs, nreq, hist>>

\* a click on Start Server (the Qt button may be disabled)
StartServer(folder, port_str, pw) ==
    /\ life.waits = 0
    /\ frontend = "qt" => life.start_btn
    /\ Len(life.pool) < MaxStarts
    /\ Started(folder,
               start_server(frontend, CurFS, life, folder, "", port_str, pw))

\* stop_server up to the call that blocks: srv.shutdown() (app.py),
\* self.server_thread.stop() and wait() (gui.py); stop() calls shutdown()
\* only if the thread has created its server
stop_server(fe, l) ==
    IF fe = "tk"
    THEN IF ~l.server_running THEN [l EXCEPT !.box = "already stopped"]
         ELSE IF l.srv # 0
              THEN [l EXCEPT !.pool[l.srv].shutdown = TRUE, !.waits = l.srv,
                             !.box = ""]
              ELSE [l EXCEPT !.box = ""]
    ELSE IF ~isRunning(l) THEN [l EXCEPT !.box = "already stopped"]
         ELSE [l EXCEPT
                 !.pool[l.server_thread].shutdown =
                     l.pool[l.server_thread].pc \in {"bound", "serving"},
                 !.waits = l.server_thread,
                 !.box = ""]

\* a click on Stop Server
StopServer ==
    /\ life.waits = 0
    /\ frontend = "qt" => life.stop_btn
    /\ life' = stop_server(frontend, life)
    /\ Outcome("stop_server", <<>>, "", 0, NoFile, <<>>, NoNote, CurFS)
    /\ UNCHANGED <<gen, range_header, creds, password, st_size, threads, reply,
                   frontend, queue, dialogs, nreq, hist>>

\* the blocking call of stop_server returns once the thread it waits for
\* has finished: shutdown() returns when serve_forever has ended, wait()
\* when run() has; the Qt window then enables Start and disables Stop
StopReturn ==
    /\ life.waits # 0
    /\ life.pool[life.waits].pc = "finished"
    /\ life' = [life EXCEPT !.waits = 0,
                            !.start_btn = IF frontend = "qt" THEN TRUE ELSE @,
                            !.stop_btn = IF frontend = "qt" THEN FALSE ELSE @]
    /\ UNCHANGED <<gen, range_header, creds, password, st_size, threads, reply,
                   frontend, queue, dialogs, nreq, hist, dirs, files, links,
                   last>>

\* one step of a server thread.  run_flask: server_running = True;
\* srv = make_server(...), which raises when the address cannot be bound;
\* serve_forever() until shutdown(); finally server_running = False.
\* ServerThread.run: self.server = make_server(...); serve_forever().
run(fe, l, k, bind_ok) ==
    LET pc == l.pool[k].pc IN
    IF pc = "started" /\ fe = "tk"
    THEN [l EXCEPT !.pool[k].pc = "flagged", !.server_running = TRUE]
    ELSE IF pc \in {"started", "flagged"}
    THEN IF bind_ok
         THEN [l EXCEPT !.pool[k].pc = "bound",
                        !.srv = IF fe = "tk" THEN k ELSE @]
         ELSE [l EXCEPT !.pool[k].pc = "finished", !.pool[k].failed = TRUE]
    ELSE IF pc = "bound"
    THEN [l EXCEPT !.pool[k].pc = "serving"]
    ELSE [l EXCEPT !.pool[k].pc = "finished",
                   !.server_running = IF fe = "tk" THEN FALSE ELSE @]

Run(k) ==
    /\ k \in DOMAIN life.pool
    /\ \/ life.pool[k].pc \in {"started", "flagged", "bound"}
       \/ life.pool[k].pc = "serving" /\ life.pool[k].shutdown
    /\ \E bind_ok \in BOOLEAN : life' = run(frontend, life, k, bind_ok)
    /\ UNCHANGED <<gen, range_header, creds, password, st_size, threads, reply,
                   frontend, queue, dialogs, nreq, hist, dirs, files, links,
                   last>>

\* the Folder field: empty, the root, another folder, a missing one
FolderInputs ==
    { <<>>, <<"/", "f">>, <<"/", "f", "2">>, <<"/", "x">> }

\* the Port field
PortInputs == { <<"8">>, <<"x">> }

LifeInit ==
    InitEnv({<<>>}, {<<>>}, {<<>>}, {1}, {NoAuth}, {NoRange}, {Stopped})

LifeNext ==
    \/ \E folder \in FolderInputs, port_str \in PortInputs :
          StartServer(folder, port_str, <<>>)
    \/ StopServer
    \/ StopReturn
    \/ \E k \in 1..MaxStarts : Run(k)

LifeSpec == LifeInit /\ [][LifeNext]_vars

\* the same while the operating system schedules the server threads and the
\* blocked call of the user interface
LifeLiveSpec ==
    /\ LifeSpec
    /\ \A k \in 1..MaxStarts : WF_vars(Run(k))
    /\ WF_vars(StopReturn)

(***************************************************************************)
(* The generator of iter_file, one step per resumption.  The bytes of the  *)
(* file are named by their offsets, so a chunk is a sequence of offsets.   *)
(* Calling iter_file runs none of its body: the file is opened by the      *)
(* first next().  The WSGI server calls next() until StopIteration and     *)
(* close() when the client goes away.                                      *)
(***************************************************************************)

\* f.read(n) at position pos of a file of file_size bytes
read(file_size, pos, n) ==
    [i \in 1..min(n, IF pos < file_size THEN file_size - pos ELSE 0)
        |-> pos + i - 1]

\* the generator object returned by iter_file(path, start, end, size)
Generator(start, end, size) ==
    [pc |-> "created", start |-> start, end |-> end, chunk_size |-> size,
     f |-> "none", pos |-> 0, remaining |-> 0, out |-> <<>>,
     raised |-> FALSE, closed |-> FALSE]

\* the generator leaves the with block: __exit__ closes the file
exit_with(g, raised) ==
    [g EXCEPT !.pc = "done", !.f = "closed", !.raised = raised]

\* one turn of the while loop, from its test to the yield
while_loop(g, file_size, read_ok) ==
    IF g.remaining > 0
    THEN IF ~read_ok
         THEN exit_with(g, TRUE)
         ELSE IF read(file_size, g.pos, min(g.chunk_size, g.remaining)) = <<>>
         THEN exit_with(g, FALSE)
         ELSE [g EXCEPT
                 !.pc = "suspended",
                 !.pos = @ + Len(read(file_size, g.pos,
                                      min(g.chunk_size, g.remaining))),
                 !.remaining = @ - Len(read(file_size, g.pos,
                                            min(g.chunk_size, g.remaining))),
                 !.out = Append(@, read(file_size, g.pos,
                                        min(g.chunk_size, g.remaining)))]
    ELSE exit_with(g, FALSE)

\* next(g): the first call opens the file, seeks and computes remaining;
\* a failing open raises before any handle exists, a failing read raises
\* inside the with block
next(g, file_size, open_ok, read_ok) ==
    IF g.pc = "created"
    THEN IF ~open_ok
         THEN [g EXCEPT !.pc = "done", !.raised = TRUE]
         ELSE while_loop([g EXCEPT !.f = "open", !.pos = g.start,
                                   !.remaining = g.end - g.start + 1],
                         file_size, read_ok)
    ELSE IF g.pc = "suspended"
    THEN while_loop(g, file_size, read_ok)
    ELSE g

\* a generator whose file is not managed by a with block: GeneratorExit
\* ends it with the file still open
close_unmanaged(g) ==
    IF g.pc \in {"created", "suspended"}
    THEN [g EXCEPT !.pc = "done", !.closed = TRUE]
    ELSE g

\* g.close(): a generator that never ran just ends; a suspended one gets
\* GeneratorExit at its yield, which leaves the with block
close(g) ==
    IF g.pc = "created"
    THEN [g EXCEPT !.pc = "done", !.closed = TRUE]
    ELSE IF g.pc = "suspended"
    THEN [exit_with(g, FALSE) EXCEPT !.closed = TRUE]
    ELSE g

\* nothing but the generator changes
GenStep(g) ==
    /\ gen' = g
    /\ UNCHANGED <<frontend, links, dirs, files, queue, dialogs, nreq, hist,
                   last, password, st_size, threads, reply, creds,
                   range_header, life>>

\* a handler builds a response around iter_file(path, start, end)
IterFile(start, end, size) ==
    /\ gen.pc \in {"none", "done"}
    /\ GenStep(Generator(start, end, size))

\* the server asks for the next chunk
Resume(open_ok, read_ok) ==
    /\ gen.pc \in {"created", "suspended"}
    /\ GenStep(next(gen, st_size[<<0, 1>>], open_ok, read_ok))

\* the client disconnects: the server closes the response iterable
Disconnect ==
    /\ gen.pc \in {"created", "suspended"}
    /\ GenStep(close(gen))

\* files of 0 to MaxSize bytes
IterInit ==
    InitEnv({<<>>}, {<<>>}, {<<>>}, 0..MaxSize, {NoAuth}, {NoRange},
            {Serving})

\* the ranges handed to iter_file: the ones stream_file computes and the
\* ones outside the precondition (an end before the start, an end at the
\* size); chunk sizes from one byte up to MaxChunk
IterNext ==
    \/ \E start \in 0..MaxSize, end \in (0 - 1)..MaxSize,
          size \in 1..MaxChunk : IterFile(start, end, size)
    \/ \E open_ok \in BOOLEAN, read_ok \in BOOLEAN : Resume(open_ok, read_ok)
    \/ Disconnect

IterSpec == IterInit /\ [][IterNext]_vars

\* the server keeps consuming the body it is sending
IterLiveSpec ==
    /\ IterSpec
    /\ WF_vars(\E open_ok \in BOOLEAN, read_ok \in BOOLEAN :
                  Resume(open_ok, read_ok))

\* the sandbox functions applied to one client string, over every
\* symbolic-link layout: the string is drawn when the behaviour starts
SandboxChars == {"/", ".", "\\", " ", "f", "2", "l"}

SandboxInputs == UNION { [1..n -> SandboxChars] : n \in 0..MaxLen }

SandboxInit == InitWith(LinkLayouts, SandboxInputs)

SafeRelPath ==
    LET r == safe_rel_path(last.arg) IN
    /\ Outcome("safe_rel_path", last.arg, "", r.err, NoFile, r.p.parts,
               NoNote, CurFS)
    /\ UNCHANGED <<life, gen, range_header, creds, password, st_size, threads, reply,
                   frontend, queue, dialogs, nreq, hist>>

GetDirSafe ==
    LET r == get_dir_safe(frontend, CurFS, last.arg) IN
    /\ Outcome("get_dir_safe", last.arg, "", r.err, NoFile, r.path,
               NoNote, CurFS)
    /\ UNCHANGED <<life, gen, range_header, creds, password, st_size, threads, reply,
                   frontend, queue, dialogs, nreq, hist>>

GetFileSafe ==
    LET r == get_file_safe(frontend, CurFS, last.arg) IN
    /\ Outcome("get_file_safe", last.arg, "", r.err, NoFile, r.path, NoNote,
               IF r.err \in {0, 404}
               THEN EnsurePending(frontend, CurFS) ELSE CurFS)
    /\ UNCHANGED <<life, gen, range_header, creds, password, st_size, threads, reply,
                   frontend, queue, dialogs, nreq, hist>>

GetPendingFileSafe ==
    LET r == get_pending_file_safe(frontend, CurFS, last.arg) IN
    /\ Outcome("get_pending_file_safe", last.arg, "", r.err, NoFile, r.path,
               NoNote, EnsurePending(frontend, CurFS))
    /\ UNCHANGED <<life, gen, range_header, creds, password, st_size, threads, reply,
                   frontend, queue, dialogs, nreq, hist>>

SandboxNext ==
    \/ SafeRelPath
    \/ GetDirSafe
    \/ GetFileSafe
    \/ GetPendingFileSafe

SandboxSpec == SandboxInit /\ [][SandboxNext]_vars

(***************************************************************************)
(* Concurrent handlers.  Both front-ends serve with                        *)
(* make_server(..., threaded=True): every request runs in a thread of its  *)
(* own, beside the thread of the user interface.  A handler takes two      *)
(* steps: the tests on the filesystem (exists, the collision loop), then   *)
(* the system call that acts on the path it has chosen.                    *)
(***************************************************************************)
\* approve up to the choice of dest: [done, exc, fs, src, dest]; done when
\* the function returns before pending_path.replace(dest)
approve_plan(fe, fs0, rel_inside_pending) ==
    LET fs           == EnsurePending(fe, fs0)
        pending_root == get_pending_dir(fs)
        pending_path == resolve(fs.lk, Join(pending_root, Path(rel_inside_pending)))
        stop(exc, g) == [done |-> TRUE, exc |-> exc, fs |-> g,
                         src |-> <<>>, dest |-> <<>>]
    IN  IF ~exists(fs, pending_path) THEN stop(FALSE, fs)
        ELSE IF ~IsUnder(pending_path, pending_root) THEN stop(TRUE, fs)
        ELSE LET rel_inside == relative_to(pending_path, pending_root)
                 dest0      == (IF fe = "tk" THEN get_base_dir(fs) ELSE base_dir)
                                   \o rel_inside
                 made       == mkdir_p(fs, Parent(dest0))
             IN  IF ~made.ok THEN stop(TRUE, fs)
                 ELSE [done |-> FALSE, exc |-> FALSE, fs |-> made.fs,
                       src |-> pending_path,
                       dest |-> FreePath(made.fs, dest0)]

\* pending_path.replace(dest) (os.replace): FileNotFoundError when src is
\* gone; a regular file at dest is replaced without a word
os_replace(fs, src, dest) ==
    LET dst == RealTarget(fs, dest) IN
    IF ~exists(fs, src) \/ RenameFails(fs, src, dest)
    THEN [exc |-> TRUE, fs |-> fs]
    ELSE [exc |-> FALSE,
          fs  |-> rename(IF dst \in DOMAIN fs.f THEN unlink(fs, dst) ELSE fs,
                         src, dest)]

\* reject up to the test: [done, fs, src]
reject_plan(fe, fs0, rel_inside_pending) ==
    LET fs           == EnsurePending(fe, fs0)
        pending_root == get_pending_dir(fs)
        pending_path == resolve(fs.lk, Join(pending_root, Path(rel_inside_pending)))
    IN  [done |-> pending_path \notin DOMAIN fs.f, fs |-> fs,
         src |-> pending_path]

\* pending_path.unlink(): FileNotFoundError when the file is gone
os_unlink(fs, src) ==
    IF src \in DOMAIN fs.f THEN [exc |-> FALSE, fs |-> unlink(fs, src)]
    ELSE [exc |-> TRUE, fs |-> fs]

\* upload of one file up to the choice of save_path: [status, fs, dest];
\* status 0 when the handler goes on to file.save(save_path)
upload_plan(fe, fs, p, name) ==
    LET current_rel == strip(p)
        checked     == get_dir_safe(fe, fs, current_rel)
        filename    == secure_filename(name)
    IN  IF checked.err # 0
        THEN [status |-> IF fe = "qt" THEN 400 ELSE checked.err, fs |-> fs,
              dest |-> <<>>]
        ELSE LET fs1          == EnsurePending(fe, fs)
                 pending_root == get_pending_dir(fs1)
                 tdir         == Join(pending_root, safe_rel_path(current_rel).p)
                 made         == mkdir_p(fs1, tdir)
             IN  IF ~made.ok THEN [status |-> 500, fs |-> fs1, dest |-> <<>>]
                 ELSE IF name = <<>> \/ filename = <<>>
                 THEN [status |-> 302, fs |-> made.fs, dest |-> <<>>]
                 ELSE [status |-> 0, fs |-> made.fs,
                       dest |-> FreePath(made.fs, Append(tdir, filename))]

\* the user interface handles one event at a time
UiIdle == threads["ui"].pc = "idle"

\* the notification a thread of the user interface is deciding
CloseDialog(req) == SelectSeq(dialogs, LAMBDA d : d.req # req)

\* a moderation handler has ended: a worker answers 302, or 500 when the
\* handler raised; a dialog closes unless its callback raised
Moderated(t, op, rel, req, src, exc, fs) ==
    /\ Outcome(IF t = "ui" THEN "dialog_" \o op ELSE op, rel,
               IF t = "ui" THEN "" ELSE "127.0.0.1",
               IF exc THEN 500 ELSE IF t = "ui" THEN 0 ELSE 302,
               NoFile, src, NoNote, fs)
    /\ threads' = [threads EXCEPT ![t] = Idle]
    /\ dialogs' = IF t = "ui" /\ ~exc THEN CloseDialog(req) ELSE dialogs
    /\ hist' = IF t # "ui" THEN hist
               ELSE IF op = "approve"
               THEN [hist EXCEPT ![req].approves = @ + 1]
               ELSE [hist EXCEPT ![req].rejects = @ + 1]
    /\ UNCHANGED <<life, gen, range_header, creds, password, st_size, reply, frontend, queue, nreq>>

\* a handler between its two steps
Paused(t, pc, op, rel, req, src, dest, fs) ==
    /\ Outcome(op \o "_begin", rel, "", 0, NoFile, src, NoNote, fs)
    /\ threads' = [threads EXCEPT ![t] =
                      [pc |-> pc, op |-> op, arg |-> rel, src |-> src,
                       dest |-> dest, req |-> req]]

\* the paths a moderation request can name: the pending list of the page
\* as it is, and the paths of the notifications (a page loaded earlier)
RaceTargets ==
    list_pending_files(CurFS) \cup
    { d.pending_relpaths[1] : d \in { dialogs[i] : i \in DOMAIN dialogs } }

\* the path a thread is asked to moderate: a worker gets it from the page
\* (POST from the local host), the user interface from the dialog of a
\* notification of one file
Target(t, rel, req) ==
    /\ threads[t].pc = "idle"
    /\ IF t = "ui"
       THEN \E i \in Actionable :
               /\ dialogs[i].req = req
               /\ dialogs[i].pending_relpaths = <<rel>>
       ELSE req = 0

\* approve, first step: exists(), relative_to, mkdir, the collision loop
ApproveBegin(t, rel, req) ==
    /\ Target(t, rel, req)
    /\ LET plan == approve_plan(frontend, CurFS, rel) IN
       IF plan.done
       THEN Moderated(t, "approve", rel, req, <<>>, plan.exc, plan.fs)
       ELSE /\ Paused(t, "replace", "approve", rel, req, plan.src, plan.dest,
                      plan.fs)
            /\ UNCHANGED <<life, gen, range_header, creds, password, st_size, reply, frontend, queue,
                           dialogs, nreq, hist>>

\* approve, second step: pending_path.replace(dest)
Replace(t) ==
    /\ threads[t].pc = "replace"
    /\ LET me == threads[t]
           r  == os_replace(CurFS, me.src, me.dest)
       IN  Moderated(t, "approve", me.arg, me.req, me.src, r.exc, r.fs)

\* reject, first step: exists() and is_file()
RejectBegin(t, rel, req) ==
    /\ Target(t, rel, req)
    /\ LET plan == reject_plan(frontend, CurFS, rel) IN
       IF plan.done
       THEN Moderated(t, "reject", rel, req, <<>>, FALSE, plan.fs)
       ELSE /\ Paused(t, "unlink", "reject", rel, req, plan.src, <<>>,
                      plan.fs)
            /\ UNCHANGED <<life, gen, range_header, creds, password, st_size, reply, frontend, queue,
                           dialogs, nreq, hist>>

\* reject, second step: pending_path.unlink()
Unlink(t) ==
    /\ threads[t].pc = "unlink"
    /\ LET me == threads[t]
           r  == os_unlink(CurFS, me.src)
       IN  Moderated(t, "reject", me.arg, me.req, me.src, r.exc, r.fs)

\* the record of an upload request that has not saved its file yet
NoUpload == [saved |-> {}, notified |-> 0, shown |-> 0, approves |-> 0,
             rejects |-> 0]

\* upload of one file, first step: the request gets its number, the target
\* folder is validated and created, save_path is chosen; a request that is
\* refused or has no file to save is answered at once
UploadBegin(t, p, name) ==
    /\ t \in Workers
    /\ threads[t].pc = "idle"
    /\ LET k    == nreq + 1
           plan == upload_plan(frontend, CurFS, p, name)
       IN  /\ nreq' = k
           /\ hist' = Append(hist, NoUpload)
           /\ IF plan.status # 0
              THEN /\ Outcome("upload", p, "", plan.status, NoFile, <<>>,
                              NoNote, plan.fs)
                   /\ UNCHANGED threads
              ELSE Paused(t, "save", "upload", p, k, <<secure_filename(name)>>,
                          plan.dest, plan.fs)
    /\ UNCHANGED <<life, gen, range_header, creds, password, st_size, reply, frontend, queue, dialogs>>

\* upload, second step: file.save(save_path), relative_to, the notification
\* and the redirect (src holds the sanitized name)
UploadSave(t) ==
    /\ threads[t].pc = "save"
    /\ LET me    == threads[t]
           root  == get_pending_dir(CurFS)
           saved == Parent(RealTarget(CurFS, me.dest)) \in dirs
           fs1   == IF saved THEN save(CurFS, me.dest, <<me.req, 1>>) ELSE CurFS
           sent  == saved /\ IsUnder(me.dest, root)
           note  == [req |-> me.req,
                     pending_relpaths |->
                         IF sent
                         THEN << replace(RelStr(relative_to(me.dest, root)),
                                         "\\", "/") >>
                         ELSE <<>>,
                     display_names |-> me.src]
       IN  /\ Outcome("upload", me.arg, "", IF sent THEN 302 ELSE 500,
                      NoFile, me.dest, IF sent THEN note ELSE NoNote, fs1)
           /\ queue' = IF sent THEN put_nowait(queue, note) ELSE queue
           /\ hist' = [hist EXCEPT ![me.req] =
                          [@ EXCEPT !.saved = IF saved THEN {<<me.req, 1>>} ELSE {},
                                    !.notified = IF sent THEN 1 ELSE 0]]
           /\ threads' = [threads EXCEPT ![t] = Idle]
    /\ UNCHANGED <<life, gen, range_header, creds, password, st_size, reply, frontend, dialogs, nreq>>

\* the form field p of the racing uploads: the root folder
RaceForms == { <<>> }

\* the handlers of two workers and of the user interface, step by step:
\* uploads of one file, approve and reject from the page and from the
\* dialogs
RaceNext ==
    \/ /\ nreq < MaxUploads
       /\ \E t \in Workers, p \in RaceForms : UploadBegin(t, p, s_at)
    \/ \E t \in Workers : UploadSave(t)
    \/ \E t \in Threads, rel \in RaceTargets, req \in 0..nreq :
          ApproveBegin(t, rel, req)
    \/ \E t \in Threads : Replace(t)
    \/ \E t \in Threads, rel \in RaceTargets, req \in 0..nreq :
          RejectBegin(t, rel, req)
    \/ \E t \in Threads : Unlink(t)
    \/ UiIdle /\ Poll
    \/ UiIdle /\ Deliver

RaceSpec == Init /\ [][RaceNext]_vars

(***************************************************************************)
(* The claims                                                              *)
(***************************************************************************)
SandboxLookups == {"get_dir_safe", "get_file_safe", "get_pending_file_safe"}

\* C1: every path returned by get_dir_safe, get_file_safe or
\* get_pending_file_safe is, with the symbolic links resolved, the boundary
\* root itself or a component-wise descendant of it (the shared root for
\* the first two, the pending root for the third), whatever the links and
\* the sibling directories are.
C1_ReturnedPathInsideRoot ==
    (last.op \in SandboxLookups /\ last.status = 0) =>
        IsUnder(last.path,
                IF last.op = "get_pending_file_safe"
                THEN get_pending_dir(CurFS) ELSE get_base_dir(CurFS))

\* the segments of a client path once trimmed and with "/" for "\"
Segments(rel) == split(replace(strip(rel), "\\", "/"), "/", <<>>)

HasDotDotSegment(rel) ==
    \E i \in DOMAIN Segments(rel) : Segments(rel)[i] = DOTDOT

\* C2: a client path of which one segment is "..", once trimmed and with
\* the backslashes converted, is rejected with 400 by safe_rel_path,
\* get_dir_safe, get_file_safe and get_pending_file_safe: none returns a
\* path.
C2_DotDotRejected ==
    (last.op \in SandboxLookups \cup {"safe_rel_path"}
        /\ HasDotDotSegment(last.arg)) => last.status = 400

ContentRoutes == {"player", "download", "stream", "delete"}

\* the request path, joined to the shared root and resolved, is the pending
\* root or lies below it
ResolvesInPending(rel) ==
    IsUnder(resolve(links, Join(get_base_dir(CurFS), Path(rel))),
            get_pending_dir(CurFS))

\* the files below the pending root
PendingFiles == { q \in DOMAIN files : IsUnder(q, get_pending_dir(CurFS)) }

\* C3 as stated: a /player, /download, /stream or /delete request whose
\* path resolves inside the pending root is answered 404, serves no bytes
\* and deletes nothing.
C3_PendingAnswered404 ==
    (last.op \in ContentRoutes /\ ResolvesInPending(last.arg)) =>
        /\ last.status = 404
        /\ last.served = NoFile
        /\ last.deleted = {}

\* C3 amended: such a request serves the bytes of no file, deletes and moves
\* nothing, and is answered 403 when it is a /delete from another host, 302
\* when it is a /delete of the Qt front-end from the local host, 400 when
\* the Tk front-end finds a ".." part in the path, 404 otherwise; and no
\* request to these routes serves or deletes a file of the pending root.
C3_PendingNeverServed ==
    last.op \in ContentRoutes =>
        /\ ResolvesInPending(last.arg) =>
              /\ last.served = NoFile
              /\ last.deleted = {} /\ last.moved = {}
              /\ last.status =
                    IF last.op = "delete" /\ ~is_admin_request(frontend, last.addr)
                    THEN 403
                    ELSE IF last.op = "delete" /\ frontend = "qt" THEN 302
                    ELSE IF frontend = "tk" /\ HasDotDot(Path(last.arg)) THEN 400
                    ELSE 404
        /\ \A q \in PendingFiles : files[q] # last.served
        /\ \A q \in last.deleted : ~IsUnder(q, get_pending_dir(CurFS))

\* a staged file was asked for through /stream, and through /delete by the
\* local host
C3_Witness ==
    /\ last.op \in {"stream", "delete"}
    /\ last.op = "delete" => is_admin_request(frontend, last.addr)
    /\ resolve(links, Join(get_base_dir(CurFS), Path(last.arg))) \in PendingFiles

ApproveOps == {"approve", "dialog_approve"}
RejectOps  == {"reject", "dialog_reject"}

PendingRoot == get_pending_dir(CurFS)
ContentRoot == get_base_dir(CurFS)

\* C4: whatever path is passed to the approve and reject operations (the
\* routes, approve_pending_file, reject_pending_file, the dialogs), every
\* file they move or delete lay inside the pending root.
C4_ModerationConfined ==
    last.op \in ApproveOps \cup RejectOps =>
        /\ \A q \in last.deleted : IsUnder(q, PendingRoot)
        /\ \A m \in last.moved : IsUnder(m[1], PendingRoot)

\* the staged file at the pending-relative path of the request
StagedAt(rel) == PendingRoot \o Path(rel).parts

\* the moves of the last operation that took the staged file named by the
\* request (the route's path, a path the dialog lists) out of its place
ApprovedFiles ==
    IF last.op = "approve"
    THEN { m \in last.moved : m[1] = StagedAt(last.arg) }
    ELSE IF last.op = "dialog_approve"
    THEN { m \in last.moved :
             \E i \in DOMAIN last.note.pending_relpaths :
                 m[1] = StagedAt(last.note.pending_relpaths[i]) }
    ELSE {}

\* C5: approve of the staged file at r takes it out of the pending subtree
\* to the same relative position r under the content root, unless that name
\* is taken there; afterwards the file is not under the pending root; and a
\* second approve of r changes nothing and raises no error.
C5_ApproveMovesToSamePosition ==
    /\ [](\A m \in ApprovedFiles :
            /\ ~IsUnder(m[2], PendingRoot)
            /\ LET same == ContentRoot \o relative_to(m[1], PendingRoot) IN
               m[2] = same \/ same \in DOMAIN files \cup dirs)
    /\ [][(/\ last.op = "approve" /\ last'.op = "approve"
           /\ last'.arg = last.arg /\ last'.addr = last.addr
           /\ ApprovedFiles # {})
          => (files' = files /\ last'.status = 302)]_vars

\* the content identities of the files the upload requests have saved
Uploaded(h) == UNION { h[k].saved : k \in DOMAIN h }

\* where an uploaded file is: under the pending root, under the content
\* root and outside the pending root, nowhere, or somewhere else
Stage(f, id) ==
    LET at == { q \in DOMAIN f : f[q] = id } IN
    IF at = {} THEN "Rejected"
    ELSE IF \A q \in at : IsUnder(q, PendingRoot) THEN "Staged"
    ELSE IF \A q \in at : IsUnder(q, ContentRoot) /\ ~IsUnder(q, PendingRoot)
         THEN "Approved"
    ELSE "Elsewhere"

\* C6: every uploaded file is Staged, Approved or Rejected; it starts
\* Staged; approve takes a Staged file to Approved and reject takes it to
\* Rejected, nothing else changes where it is, and an approved or rejected
\* file is never again under the pending root; for every target folder
\* that upload accepts.
C6_LinearLifecycle ==
    [][\A id \in Uploaded(hist') :
          LET now == Stage(files', id) IN
          IF id \notin Uploaded(hist) THEN now = "Staged"
          ELSE LET was == Stage(files, id) IN
               \/ /\ was = now
                  /\ now # "Elsewhere"
                  /\ \A m \in last'.moved : files[m[1]] # id
               \/ /\ was = "Staged" /\ now = "Approved"
                  /\ last'.op \in ApproveOps
               \/ /\ was = "Staged" /\ now = "Rejected"
                  /\ last'.op \in RejectOps]_vars

\* C7: approve never overwrites a file of the content root: it deletes and
\* creates nothing, every file it moves comes from the pending root and
\* arrives under the content root at a name that was free, so the files of
\* the content root are as before and the number of files, content plus
\* pending, is the same.
C7_ApproveNeverOverwrites ==
    last.op \in ApproveOps =>
        /\ last.deleted = {} /\ last.created = {}
        /\ \A m \in last.moved :
              /\ IsUnder(m[1], PendingRoot)
              /\ IsUnder(m[2], ContentRoot)
        /\ \A m, n \in last.moved : m[2] = n[2] => m = n

\* the name a file is staged under: its sanitized name, or the first
\* stem_k.ext of which no smaller k is free in the folder
FirstFreeName(path, filename) ==
    \/ Name(path) = filename
    \/ \E k \in 1..(MaxUploads * MaxFiles + 1) :
          /\ Name(path) = Suffixed(stem(filename), k, suffix(filename))
          /\ Append(Parent(path), filename) \in DOMAIN files \cup dirs
          /\ \A j \in 1..(k - 1) :
                Append(Parent(path), Suffixed(stem(filename), j, suffix(filename)))
                    \in DOMAIN files \cup dirs

\* C8: staging never overwrites a pending file: an upload request deletes
\* and moves nothing, each file it lists is a new file stored under its
\* sanitized name or, if that name is taken in the pending target folder,
\* under the first free stem_k.ext, and the pending paths of one request
\* are pairwise distinct.
C8_StagingNeverOverwrites ==
    last.op = "upload" =>
        LET rels == last.note.pending_relpaths
            disp == last.note.display_names
        IN  /\ last.deleted = {} /\ last.moved = {}
            /\ \A i, j \in DOMAIN rels : rels[i] = rels[j] => i = j
            /\ \A i \in DOMAIN rels :
                  /\ StagedAt(rels[i]) \in last.created
                  /\ files[StagedAt(rels[i])] = <<last.note.req, i>>
                  /\ FirstFreeName(StagedAt(rels[i]), disp[i])

\* two files named a.t staged by one request into the same folder, where an
\* earlier request had staged a.t and a_1.t
C8_Witness ==
    /\ last.op = "upload"
    /\ last.note.req = 2
    /\ last.note.pending_relpaths =
          << <<"a", "_", "2", ".", "t">>, <<"a", "_", "3", ".", "t">> >>

\* C9: an upload request that saved a file has produced one notification,
\* a request that saved none has produced none; the notification lists the
\* pending paths of the files the request saved, in save order, with as
\* many display names; no notification is presented twice.
C9_OneNotificationPerRequest ==
    /\ \A k \in DOMAIN hist :
          /\ hist[k].notified = IF hist[k].saved # {} THEN 1 ELSE 0
          /\ hist[k].shown <= hist[k].notified
    /\ last.op = "upload" =>
          LET rels == last.note.pending_relpaths IN
          /\ Len(last.note.display_names) = Len(rels)
          /\ Cardinality(last.created) = Len(rels)
          /\ \A i \in DOMAIN rels :
                files[StagedAt(rels[i])] = <<last.note.req, i>>

\* C10: a decision is taken at most once per notification; after Approve
\* every listed pending path is gone from the pending folder, what was
\* there has been moved under the content root and nothing was deleted;
\* after Reject every listed pending path is gone, deleted, and nothing was
\* moved.
C10_DecisionAtomic ==
    LET rels   == last.note.pending_relpaths
        listed == { StagedAt(rels[i]) : i \in DOMAIN rels }
    IN  /\ \A k \in DOMAIN hist : hist[k].approves + hist[k].rejects <= 1
        /\ last.op = "dialog_approve" =>
              /\ last.status = 0
              /\ listed \cap DOMAIN files = {}
              /\ last.deleted = {} /\ last.created = {}
              /\ \A m \in last.moved :
                    m[1] \in listed /\ IsUnder(m[2], ContentRoot)
        /\ last.op = "dialog_reject" =>
              /\ listed \cap DOMAIN files = {}
              /\ last.moved = {} /\ last.created = {}
              /\ last.deleted \subseteq listed

\* Approve pressed on a notification of two files, both moved
C10_Witness ==
    /\ last.op = "dialog_approve"
    /\ Len(last.note.pending_relpaths) = 2
    /\ Cardinality(last.moved) = 2

\* the moderation handlers of the page and of the dialogs
ModerationOps == {"approve", "reject", "dialog_approve", "dialog_reject"}

\* C11: a moderation action whose pending file another thread has moved or
\* deleted in the meantime is a silent no-op: it ends without raising and
\* without failing its request (a worker answers 302, a dialog closes).
C11_VanishedIsNoOp ==
    last.op \in ModerationOps => last.status # 500

\* the notifications that have been enqueued and not decided yet
Notifications ==
    { queue[i] : i \in DOMAIN queue } \cup { dialogs[i] : i \in DOMAIN dialogs }

\* C12: two upload requests that stage the same sanitized name into the
\* same folder at the same time keep both files: no upload overwrites a file
\* that is there, and no two notifications list the same pending path.
C12_ConcurrentStagingKeepsBoth ==
    /\ last.op = "upload" => last.deleted = {}
    /\ \A m, n \in Notifications :
          m.req # n.req =>
             \A i \in DOMAIN m.pending_relpaths, j \in DOMAIN n.pending_relpaths :
                m.pending_relpaths[i] # n.pending_relpaths[j]

\* the upload requests whose notification has been enqueued and is neither
\* in the channel nor presented: the lost ones
Lost ==
    { k \in DOMAIN hist :
         /\ hist[k].notified = 1
         /\ hist[k].shown = 0
         /\ \A i \in DOMAIN queue : queue[i].req # k }

\* C13: an upload request that reaches the enqueue ends with its redirect,
\* its files staged and its notification at the tail of the channel,
\* whatever the channel holds (the channel has no capacity, so nothing is
\* dropped); no notification is lost; and a staged file leaves the pending
\* tree only by an approve or a reject.
C13_EnqueueNeverBlocks ==
    /\ [](/\ (last.op = "upload" /\ last.note # NoNote) =>
                /\ last.status = 302
                /\ last.created # {}
                /\ \A q \in last.created : IsUnder(q, PendingPath)
                /\ queue # <<>>
                /\ queue[Len(queue)] = last.note
          /\ Lost = {})
    /\ [][\A q \in DOMAIN files :
             (IsUnder(q, PendingPath) /\ q \notin DOMAIN files')
                => last'.op \in ModerationOps]_vars

\* an upload has enqueued its notification behind one that is still in the
\* channel
C13_Witness ==
    /\ last.op = "upload"
    /\ last.note # NoNote
    /\ Len(queue) = 2

\* the request numbers of a sequence of notifications
Reqs(notes) == [i \in DOMAIN notes |-> notes[i].req]

Increasing(seq) == \A i, j \in DOMAIN seq : i < j => seq[i] < seq[j]

\* C14: the user interface drains the channel first in, first out: a
\* notification is presented only when every notification enqueued before
\* it has been presented, the dialogs and the channel hold the
\* notifications in enqueue order, a tick of check_upload_requests empties
\* the channel, and while the user interface runs every enqueued
\* notification is eventually presented.
C14_EventuallyPresentedInOrder ==
    /\ [](Increasing(Reqs(dialogs \o queue)))
    /\ [][\A k \in DOMAIN hist :
             (hist[k].shown = 0 /\ hist'[k].shown = 1) =>
                \A j \in 1..(k - 1) :
                   hist'[j].notified = 1 => hist'[j].shown = 1]_vars
    /\ [][last'.op = "poll" =>
             queue' = <<>> /\ dialogs' = dialogs \o queue]_vars
    /\ \A k \in 1..MaxUploads :
          (k \in DOMAIN hist /\ hist[k].notified = 1)
             ~> (k \in DOMAIN hist /\ hist[k].shown = 1)

\* two notifications have been enqueued and both are presented, the second
\* by a tick or a delivery
C14_Witness ==
    /\ Len(hist) = 2
    /\ \A k \in DOMAIN hist : hist[k].notified = 1 /\ hist[k].shown = 1
    /\ Len(dialogs) = 2
    /\ last.op \in {"poll", "deliver"}

\* the file a reject of rel acts on: pending_root / rel, resolved
RejectTarget(rel) == resolve(links, Join(PendingPath, Path(rel)))

\* the paths a reject step was given: the path of the request, or the
\* paths of the notification of the dialog
Rejected(l) ==
    IF l.op = "reject" THEN { l.arg }
    ELSE { l.note.pending_relpaths[i] : i \in DOMAIN l.note.pending_relpaths }

\* C15: a reject returns normally, moves and creates nothing, and deletes
\* exactly the regular files its paths resolve to: nothing when the path
\* does not exist or is a directory, that one file when it is a regular
\* file; no directory is removed.
C15_RejectFrame ==
    [][(last'.op \in RejectOps /\ last'.status # 403) =>
          /\ last'.status = IF last'.op = "reject" THEN 302 ELSE 0
          /\ last'.moved = {} /\ last'.created = {}
          /\ last'.deleted =
                { RejectTarget(rel) : rel \in Rejected(last') } \cap DOMAIN files
          /\ DOMAIN files' = DOMAIN files \ last'.deleted
          /\ \A q \in DOMAIN files' : files'[q] = files[q]
          /\ dirs \subseteq dirs' /\ dirs' \subseteq dirs \cup {PendingPath}]_vars

\* a reject of a directory or of a missing path has changed nothing while
\* a file is staged
C15_WitnessNoOp ==
    /\ last.op = "reject"
    /\ last.status = 302
    /\ last.arg = <<".">>
    /\ last.deleted = {}
    /\ PendingFiles # {}

\* the folders of the last listing
ListedFolders == { reply.folders[i] : i \in DOMAIN reply.folders }

\* C16: no folder of a listing is the pending-root folder: none has the
\* pending directory's path relative to the shared root, and none that lies
\* in the shared root has its name.
C16_PendingRootNeverListed ==
    (last.op = "index" /\ last.status = 200) =>
       \A f \in ListedFolders :
          /\ Path(f.relpath).parts # <<pending_dir_name>>
          /\ Join(base_dir, Path(f.relpath)) # PendingPath

\* the shared root has been listed while a file is staged in the pending
\* directory: its other folder is there
C16_Witness ==
    /\ last.op = "index"
    /\ last.status = 200
    /\ last.arg = <<>>
    /\ PendingFiles # {}
    /\ \E f \in ListedFolders : f.name = <<"d">>

\* the addresses of the local host
Loopback == { "127.0.0.1", "::1" }

AdminRoutes == { "approve", "reject", "delete" }

\* the client sends the fixed username and the configured password
GoodCreds ==
    /\ creds.kind = "basic"
    /\ creds.username = user
    /\ creds.password = password

\* the protected state: the trees, the channel, the dialogs
Protected == <<links, dirs, files, queue, dialogs, nreq, hist>>

\* C17: approve, reject and delete are for the local host: a request from
\* another address is answered 403 (401 when a password is set and the
\* credentials are not the right ones: the authentication check comes
\* first) and changes neither tree, for every path.
C17_AdminOnly ==
    /\ []((last.op \in AdminRoutes /\ last.addr \notin Loopback) =>
             /\ last.status = IF password # <<>> /\ ~GoodCreds THEN 401 ELSE 403
             /\ last.moved = {} /\ last.deleted = {} /\ last.created = {})
    /\ [][(last'.op \in AdminRoutes /\ last'.addr \notin Loopback) =>
             UNCHANGED Protected]_vars

\* another host has asked for the approve of a staged file, with the right
\* credentials where a password is set, and got 403
C17_Witness ==
    /\ last.op = "approve"
    /\ last.addr = "192.168.1.7"
    /\ last.status = 403
    /\ password # <<>>
    /\ last.arg \in list_pending_files(CurFS)

\* C18: with a password set, a request without the username "user" and the
\* configured password is answered 401 with a Basic challenge and no
\* handler runs: nothing is listed, served, staged, moved, deleted or
\* enqueued; with the right credentials, or with no password set, the
\* handler runs and the answer is not 401.
C18_AuthWrapper ==
    /\ [](last.op \in Routes =>
             IF password # <<>> /\ ~GoodCreds
             THEN /\ last.status = 401
                  /\ reply.challenge
                  /\ reply.folders = <<>> /\ reply.files = <<>>
                  /\ reply.pending = {}
                  /\ last.served = NoFile /\ last.note = NoNote
                  /\ last.moved = {} /\ last.deleted = {} /\ last.created = {}
             ELSE last.status # 401)
    /\ [][last'.status = 401 => UNCHANGED Protected]_vars

\* a request with another username and the right password has been refused
\* while a file it names exists
C18_WitnessRefused ==
    /\ last.op = "download"
    /\ last.status = 401
    /\ creds.kind = "basic"
    /\ creds.password = password
    /\ creds.username # user
    /\ last.arg = s_at

\* the size of the file /stream reads (every file has the same size)
FileSize == st_size[<<0, 1>>]

\* the client's Range header is exactly one range bytes=<start>-[<end>]
SingleRange ==
    /\ range_header.present
    /\ \E n \in 1..Len(range_header.value) :
          LET start == SubSeq(range_header.value, 7, n)
              end   == SubSeq(range_header.value, n + 2,
                              Len(range_header.value))
          IN  /\ n >= 7 /\ n < Len(range_header.value)
              /\ SubSeq(range_header.value, 1, 6) =
                     <<"b", "y", "t", "e", "s", "=">>
              /\ \A k \in DOMAIN start : IsDigit(start[k])
              /\ range_header.value[n + 1] = "-"
              /\ \A k \in DOMAIN end : IsDigit(end[k])

\* <start> and <end> of a single range
RangeStart == int(digits_at(range_header.value, 7))
RangeEnd ==
    LET e == digits_at(range_header.value,
                       8 + Len(digits_at(range_header.value, 7)))
    IN  IF e = <<>> THEN FileSize - 1 ELSE min(int(e), FileSize - 1)

\* /stream has answered a request for a file that exists
Streamed == last.op = "stream" /\ last.status # 404

\* C19: for a file of N bytes and a Range header bytes=<start>-[<end>],
\* /stream answers 416 with an empty body when start >= N, and otherwise
\* 206 with Content-Range bytes <start>-<end>/<N>, where a missing end is
\* N-1 and end is clamped to N-1, with start <= end <= N-1 and
\* Content-Length = end - start + 1 >= 1, the number of bytes of the body.
C19_RangeArithmetic ==
    (Streamed /\ SingleRange) =>
        IF RangeStart >= FileSize
        THEN last.status = 416 /\ reply.sent = 0
        ELSE /\ last.status = 206
             /\ reply.range = <<"b", "y", "t", "e", "s", " ">>
                    \o str(RangeStart) \o <<"-">> \o str(RangeEnd)
                    \o <<"/">> \o str(FileSize)
             /\ RangeStart <= RangeEnd
             /\ RangeEnd <= FileSize - 1
             /\ reply.length = RangeEnd - RangeStart + 1
             /\ reply.length >= 1
             /\ reply.sent = reply.length

\* C20: a Range header whose value is not exactly one range
\* bytes=<start>-[<end>] (a second range after a comma, characters after
\* the range, anything else that is not empty) is answered 416 with no
\* body.
C20_NotOneRangeIs416 ==
    (Streamed /\ range_header.present /\ range_header.value # <<>>
              /\ ~SingleRange) =>
        (last.status = 416 /\ reply.sent = 0)

\* the client asks for the whole file with Range: bytes=0-
WholeFileRange ==
    /\ Streamed
    /\ range_header = [present |-> TRUE, value |-> bytes_range(0, 0 - 1)]

\* the answer 206 with Content-Range bytes 0-(N-1)/N and a body of N bytes
WholeFileAnswer ==
    /\ last.status = 206
    /\ reply.range = <<"b", "y", "t", "e", "s", " ", "0", "-">>
           \o str(FileSize - 1) \o <<"/">> \o str(FileSize)
    /\ reply.length = FileSize
    /\ reply.sent = FileSize

\* C21 as stated: for every file of size N, Range: bytes=0- is answered 206
\* with Content-Range bytes 0-(N-1)/N and a body of exactly N bytes.
C21_WholeFileEverySize == WholeFileRange => WholeFileAnswer

\* C21 amended: for every file of size N >= 1, Range: bytes=0- is answered
\* 206 with Content-Range bytes 0-(N-1)/N and a body of exactly N bytes; for
\* an empty file the answer is 416 with no body (start 0 >= N).
C21_WholeFileNonEmpty ==
    WholeFileRange =>
        IF FileSize >= 1 THEN WholeFileAnswer
        ELSE last.status = 416 /\ reply.sent = 0

\* a file of more than one byte has been streamed whole
C21_Witness ==
    /\ WholeFileRange
    /\ FileSize >= 2
    /\ last.status = 206
    /\ reply.sent = FileSize

\* a server thread has been started and has not stopped
ServerAlive == \E k \in DOMAIN life.pool : life.pool[k].pc # "finished"

\* C22: from the moment a server thread has been started until it has
\* stopped, the configured root, host, port and password are not modified,
\* and start_server invoked in between starts no second server thread.
C22_ConfigImmutableWhileRunning ==
    [][ServerAlive =>
          /\ life'.config = life.config
          /\ password' = password
          /\ Len(life'.pool) = Len(life.pool)]_vars

\* a click on Start Server would start a server
StartAccepted ==
    /\ life.waits = 0
    /\ ~AlreadyRunning(frontend, life)
    /\ frontend = "qt" => life.start_btn

\* make_server has raised in a server thread
StartFailed == \E k \in DOMAIN life.pool : life.pool[k].failed

\* C29: a failed start is recoverable: once make_server has raised in the
\* server thread the front-end comes back to a state where Start Server is
\* accepted; the Tk flag server_running does not stay true with no server
\* thread alive, and the Qt window does not stay with Start disabled, the
\* thread not running and Stop answering "already stopped".
C29_FailedStartRecoverable ==
    /\ StartFailed ~> StartAccepted
    /\ []<>~(frontend = "tk" /\ life.server_running /\ ~ServerAlive)
    /\ []<>~(frontend = "qt" /\ ~life.start_btn /\ ~isRunning(life)
                             /\ life.waits = 0)

\* C30: in the Qt front-end stop_server, invoked at any point after
\* start_server, returns with the server thread finished: the user
\* interface does not wait forever in wait().
C30_StopTerminates ==
    (frontend = "qt" /\ life.waits # 0)
        ~> (life.waits = 0 /\ ~isRunning(life))

\* the folder a client path names: joined to the root and resolved
Named(rel) ==
    resolve(links, Join(base_dir, Path(replace(strip(rel), "\\", "/"))))

\* the client path is not a folder of the content root: it holds a ".."
\* segment, resolves outside the root, names nothing, or names a file
InvalidFolder(rel) ==
    \/ HasDotDotSegment(rel)
    \/ ~IsUnder(Named(rel), resolve(links, base_dir))
    \/ Named(rel) \notin dirs

\* C23: an upload whose target folder is invalid (a ".." segment, outside
\* the content root, missing, or not a directory) is answered 400 and
\* changes nothing: no directory is created, no file is staged, no
\* notification is enqueued.
C23_BadTargetIs400 ==
    [][(last'.op = "upload" /\ InvalidFolder(last'.arg)) =>
          /\ last'.status = 400
          /\ dirs' = dirs /\ files' = files
          /\ queue' = queue /\ last'.note = NoNote]_vars

\* the routes that read one file
FileRoutes == {"player", "download", "stream"}

\* the client path is structurally invalid: a ".." segment, or a path that
\* resolves outside the content root
Structural(rel) ==
    \/ HasDotDotSegment(rel)
    \/ ~IsUnder(Named(rel), resolve(links, base_dir))

\* the client path names nothing on the disk
Missing(rel) == Named(rel) \notin dirs \cup DOMAIN files

\* the client path names something in the pending area
InPendingArea(rel) == IsUnder(Named(rel), resolve(links, PendingPath))

\* C24: the browse, player, download and stream routes answer 400 to a
\* structurally invalid path (a ".." segment, a path outside the root, a
\* file where a folder is expected) and 404 to a missing folder or file and
\* to a file of the pending area, in both front-ends; neither case gets the
\* other code or a server error.
C24_ErrorTaxonomy ==
    [][/\ (last'.op = "index" /\ Structural(last'.arg)) => last'.status = 400
       /\ (last'.op = "index" /\ ~Structural(last'.arg)
              /\ Named(last'.arg) \in DOMAIN files) => last'.status = 400
       /\ (last'.op = "index" /\ ~Structural(last'.arg)
              /\ Missing(last'.arg)) => last'.status = 404
       /\ (last'.op \in FileRoutes /\ Structural(last'.arg))
              => last'.status = 400
       /\ (last'.op \in FileRoutes /\ ~Structural(last'.arg)
              /\ (Missing(last'.arg) \/ InPendingArea(last'.arg)))
              => last'.status = 404]_vars

\* the answer of a route as a client and the disk see it
Seen(r) == <<r.status, r.fs>>

\* the same for the page of a folder, with the pending files it shows to
\* the administrator
SeenPage(r) == <<r.status, r.fs, r.pending>>

\* C25: the two front-ends implement the same route table: for every
\* request and every state of the disk, app.py and server.py give the same
\* status and the same effect on the trees, and both classify the same
\* caller addresses as the local administrator.
C25_SameRouteTable ==
    [][/\ last'.op = "index" =>
             SeenPage(index("tk", CurFS, st_size, last'.arg, last'.addr))
             = SeenPage(index("qt", CurFS, st_size, last'.arg, last'.addr))
       /\ last'.op = "player" =>
             Seen(stream_page("tk", CurFS, last'.arg))
             = Seen(stream_page("qt", CurFS, last'.arg))
       /\ last'.op = "download" =>
             Seen(download_file("tk", CurFS, last'.arg))
             = Seen(download_file("qt", CurFS, last'.arg))
       /\ last'.op = "stream" =>
             Seen(stream_file("tk", CurFS, last'.arg))
             = Seen(stream_file("qt", CurFS, last'.arg))
       /\ last'.op = "upload" =>
             Seen(upload("tk", CurFS, nreq', last'.arg, <<s_at>>))
             = Seen(upload("qt", CurFS, nreq', last'.arg, <<s_at>>))]_vars

\* the chunks of a body, one after the other
RECURSIVE Flatten(_)
Flatten(chunks) ==
    IF chunks = <<>> THEN <<>> ELSE Head(chunks) \o Flatten(Tail(chunks))

\* the bytes start..end of the file
FileBytes(start, end) == [i \in 1..(end - start + 1) |-> start + i - 1]

\* a generator made for a range inside the file
InsideFile ==
    /\ gen.pc # "none"
    /\ 0 <= gen.start
    /\ gen.start <= gen.end
    /\ gen.end < FileSize

\* the generator ran to its end: no error, no disconnect
Exhausted == gen.pc = "done" /\ ~gen.raised /\ ~gen.closed

IterFileSafe ==
    InsideFile =>
        /\ \A i \in DOMAIN gen.out :
              Len(gen.out[i]) >= 1 /\ Len(gen.out[i]) <= gen.chunk_size
        /\ Len(Flatten(gen.out)) <= gen.end - gen.start + 1
        /\ Flatten(gen.out)
              = FileBytes(gen.start, gen.start + Len(Flatten(gen.out)) - 1)
        /\ Exhausted => Flatten(gen.out) = FileBytes(gen.start, gen.end)
        /\ gen.pc = "done" => gen.f # "open"

\* C26: for 0 <= start <= end < size the generator of iter_file yields
\* non-empty chunks of at most chunk_size bytes that are, in order, the bytes
\* of the file from start on, exactly the bytes start..end once it is
\* exhausted; it comes to an end; and once it has ended, by exhaustion, by
\* the close() of a disconnect or by an error, the file is not open
C26_IterFileTerminatesClosed ==
    /\ []IterFileSafe
    /\ InsideFile ~> (gen.pc = "done")

\* an exhausted generator that yielded a full chunk and a shorter last one,
\* its file closed
C26_Witness ==
    /\ InsideFile
    /\ Exhausted
    /\ gen.f = "closed"
    /\ Len(gen.out) = 2
    /\ Len(gen.out[2]) < gen.chunk_size

\* the path a relative path of the page stands for lies in the pending
\* directory or is the pending directory
UnderPending(rel) ==
    IsUnder(resolve(links, Join(base_dir, Path(rel))), get_pending_dir(CurFS))

\* C27: a page of a folder served to a client that is not the local
\* administrator is never the page of the pending directory or of a folder
\* below it, and none of its folders and files lies under the pending
\* directory
C27_PendingInvisible ==
    (last.op = "index" /\ last.status = 200 /\ last.addr \notin Loopback) =>
       /\ ~UnderPending(strip(last.arg))
       /\ \A i \in DOMAIN reply.folders :
             ~UnderPending(reply.folders[i].relpath)
       /\ \A i \in DOMAIN reply.files :
             ~UnderPending(reply.files[i].relpath)

\* the upload request that staged the file at path q (0: a file that was on
\* the disk before any upload)
StagedBy(q) == files[q][1]

\* C28: a decision taken in the dialog of a notification moves and deletes
\* only files that the upload request of that notification staged
C28_DialogTouchesOwnFilesOnly ==
    [][last'.op \in {"dialog_approve", "dialog_reject"} =>
          /\ \A m \in last'.moved : StagedBy(m[1]) = last'.note.req
          /\ \A q \in last'.deleted : StagedBy(q) = last'.note.req]_vars

=============================================================================
